---- MODULE Spec2Model ----
(***************************************************************************)
(* Traced graph search of src/ABD.py: dfs_collect_trace, bfs_collect_trace *)
(* and astar_collect_trace, driven the way draw_comparison_static and      *)
(* animate_search call them.                                               *)
(*                                                                         *)
(* Conventions                                                             *)
(*   - a Python dict is a sequence of <<key, value>> pairs in insertion    *)
(*     order (graph[n].items()), a Python list is a sequence, a set a set; *)
(*   - None is the empty sequence and a present optional value x is <<x>>  *)
(*     (result path and cost); the 'current' field of a trace record uses  *)
(*     the string "None";                                                  *)
(*   - the 'step' field of a trace record is a float in the source         *)
(*     (step or step + 0.5); it is kept here in halves: 2*step and         *)
(*     2*step + 1;                                                         *)
(*   - the 'message' field of a trace record is a formatting of the other  *)
(*     fields and execution_time is wall-clock time; neither is modelled.  *)
(***************************************************************************)
EXTENDS Integers, Sequences, FiniteSets, TLC

\* ------------------------------------------------------------------------
\* Bounds of the generated inputs
\* ------------------------------------------------------------------------
MaxWeight == 3
MaxH == 2
MaxEdges == 3
MaxSteps == 50

\* ------------------------------------------------------------------------
\* Identifiers and their Python string order
\* ------------------------------------------------------------------------
SmallNodes == <<"A", "B", "C", "D">>
Absent == "Nowhere"

\* sorted() of every identifier the model uses, as Python compares str
StrOrder ==
  <<"A", "B", "Bydgoszcz", "C", "Czestochowa", "D", "Glogow", "Kalisz",
    "Katowice", "Kielce", "Konin", "Krakow", "Leszno", "Lodz", "Nowhere",
    "Opole", "Plock", "Poznan", "Radom", "Warsaw", "Wloclawek", "Wroclaw">>

Rank == [n \in {StrOrder[i] : i \in 1..Len(StrOrder)} |->
           CHOOSE i \in 1..Len(StrOrder) : StrOrder[i] = n]

StrLess(a, b) == Rank[a] < Rank[b]

\* list < list in Python: first differing element decides, a proper prefix is smaller
RECURSIVE ListLess(_, _)
ListLess(p, q) ==
  IF q = <<>> THEN FALSE
  ELSE IF p = <<>> THEN TRUE
  ELSE IF Head(p) # Head(q) THEN StrLess(Head(p), Head(q))
  ELSE ListLess(Tail(p), Tail(q))

\* entries compared by f alone: (f, ...) < (f', ...) only when f < f'
TupleLess_f_only(a, b) == a[1] < b[1]

\* tuple < tuple for the A* frontier entries (f, g, node, path)
TupleLess(a, b) ==
  IF a[1] # b[1] THEN a[1] < b[1]
  ELSE IF a[2] # b[2] THEN a[2] < b[2]
  ELSE IF a[3] # b[3] THEN StrLess(a[3], b[3])
  ELSE ListLess(a[4], b[4])

\* ------------------------------------------------------------------------
\* The reference data
\* ------------------------------------------------------------------------
\* the road map with the road Plock - Warsaw entered with two different lengths
graph_ref_oneway ==
  [n \in {"Glogow", "Leszno", "Poznan", "Bydgoszcz", "Wloclawek", "Konin",
          "Kalisz", "Lodz", "Warsaw", "Radom", "Kielce", "Krakow", "Katowice",
          "Czestochowa", "Opole", "Wroclaw", "Plock"} |->
   CASE n = "Glogow"      -> << <<"Leszno", 45>>, <<"Wroclaw", 140>> >>
     [] n = "Leszno"      -> << <<"Glogow", 45>>, <<"Poznan", 90>>, <<"Kalisz", 130>> >>
     [] n = "Poznan"      -> << <<"Leszno", 90>>, <<"Bydgoszcz", 140>>, <<"Konin", 120>> >>
     [] n = "Bydgoszcz"   -> << <<"Poznan", 140>>, <<"Wloclawek", 110>> >>
     [] n = "Wloclawek"   -> << <<"Bydgoszcz", 110>>, <<"Plock", 55>> >>
     [] n = "Konin"       -> << <<"Poznan", 120>>, <<"Lodz", 120>> >>
     [] n = "Kalisz"      -> << <<"Leszno", 130>>, <<"Lodz", 120>>, <<"Czestochowa", 160>> >>
     [] n = "Lodz"        -> << <<"Konin", 120>>, <<"Kalisz", 120>>, <<"Warsaw", 150>>,
                                <<"Radom", 165>>, <<"Krakow", 280>> >>
     [] n = "Warsaw"      -> << <<"Lodz", 150>>, <<"Plock", 130>>, <<"Radom", 105>> >>
     [] n = "Radom"       -> << <<"Warsaw", 105>>, <<"Kielce", 82>>, <<"Lodz", 165>> >>
     [] n = "Kielce"      -> << <<"Radom", 82>>, <<"Krakow", 120>> >>
     [] n = "Krakow"      -> << <<"Kielce", 120>>, <<"Katowice", 85>>, <<"Lodz", 280>> >>
     [] n = "Katowice"    -> << <<"Krakow", 85>>, <<"Czestochowa", 80>>, <<"Opole", 118>> >>
     [] n = "Czestochowa" -> << <<"Kalisz", 160>>, <<"Katowice", 80>> >>
     [] n = "Opole"       -> << <<"Wroclaw", 100>>, <<"Katowice", 118>> >>
     [] n = "Wroclaw"     -> << <<"Glogow", 140>>, <<"Opole", 100>> >>
     [] n = "Plock"       -> << <<"Wloclawek", 55>>, <<"Warsaw", 135>> >>]

graph_ref ==
  [n \in {"Glogow", "Leszno", "Poznan", "Bydgoszcz", "Wloclawek", "Konin",
          "Kalisz", "Lodz", "Warsaw", "Radom", "Kielce", "Krakow", "Katowice",
          "Czestochowa", "Opole", "Wroclaw", "Plock"} |->
   CASE n = "Glogow"      -> << <<"Leszno", 45>>, <<"Wroclaw", 140>> >>
     [] n = "Leszno"      -> << <<"Glogow", 45>>, <<"Poznan", 90>>, <<"Kalisz", 130>> >>
     [] n = "Poznan"      -> << <<"Leszno", 90>>, <<"Bydgoszcz", 140>>, <<"Konin", 120>> >>
     [] n = "Bydgoszcz"   -> << <<"Poznan", 140>>, <<"Wloclawek", 110>> >>
     [] n = "Wloclawek"   -> << <<"Bydgoszcz", 110>>, <<"Plock", 55>> >>
     [] n = "Konin"       -> << <<"Poznan", 120>>, <<"Lodz", 120>> >>
     [] n = "Kalisz"      -> << <<"Leszno", 130>>, <<"Lodz", 120>>, <<"Czestochowa", 160>> >>
     [] n = "Lodz"        -> << <<"Konin", 120>>, <<"Kalisz", 120>>, <<"Warsaw", 150>>,
                                <<"Radom", 165>>, <<"Krakow", 280>> >>
     [] n = "Warsaw"      -> << <<"Lodz", 150>>, <<"Plock", 130>>, <<"Radom", 105>> >>
     [] n = "Radom"       -> << <<"Warsaw", 105>>, <<"Kielce", 82>>, <<"Lodz", 165>> >>
     [] n = "Kielce"      -> << <<"Radom", 82>>, <<"Krakow", 120>> >>
     [] n = "Krakow"      -> << <<"Kielce", 120>>, <<"Katowice", 85>>, <<"Lodz", 280>> >>
     [] n = "Katowice"    -> << <<"Krakow", 85>>, <<"Czestochowa", 80>>, <<"Opole", 118>> >>
     [] n = "Czestochowa" -> << <<"Kalisz", 160>>, <<"Katowice", 80>> >>
     [] n = "Opole"       -> << <<"Wroclaw", 100>>, <<"Katowice", 118>> >>
     [] n = "Wroclaw"     -> << <<"Glogow", 140>>, <<"Opole", 100>> >>
     [] n = "Plock"       -> << <<"Wloclawek", 55>>, <<"Warsaw", 130>> >>]

\* the estimates with Wloclawek put farther from Plock than its road is long
heuristic_ref_overestimating ==
  [n \in DOMAIN graph_ref |->
   CASE n = "Glogow" -> 280 [] n = "Leszno" -> 250 [] n = "Poznan" -> 200
     [] n = "Bydgoszcz" -> 100 [] n = "Wloclawek" -> 60 [] n = "Konin" -> 150
     [] n = "Kalisz" -> 220 [] n = "Lodz" -> 130 [] n = "Warsaw" -> 100
     [] n = "Radom" -> 180 [] n = "Kielce" -> 250 [] n = "Krakow" -> 320
     [] n = "Katowice" -> 350 [] n = "Czestochowa" -> 280 [] n = "Opole" -> 320
     [] n = "Wroclaw" -> 300 [] n = "Plock" -> 0]

heuristic_ref ==
  [n \in DOMAIN graph_ref |->
   CASE n = "Glogow" -> 280 [] n = "Leszno" -> 250 [] n = "Poznan" -> 200
     [] n = "Bydgoszcz" -> 100 [] n = "Wloclawek" -> 55 [] n = "Konin" -> 150
     [] n = "Kalisz" -> 220 [] n = "Lodz" -> 130 [] n = "Warsaw" -> 100
     [] n = "Radom" -> 180 [] n = "Kielce" -> 250 [] n = "Krakow" -> 320
     [] n = "Katowice" -> 350 [] n = "Czestochowa" -> 280 [] n = "Opole" -> 320
     [] n = "Wroclaw" -> 300 [] n = "Plock" -> 0]

start_ref == "Glogow"
goal_ref == "Plock"

\* ------------------------------------------------------------------------
\* Python helpers
\* ------------------------------------------------------------------------
None == <<>>
Some(x) == <<x>>

RECURSIVE reversed(_)
reversed(s) == IF s = <<>> THEN <<>> ELSE Append(reversed(Tail(s)), Head(s))

\* sorted(d.items()): dict keys are unique, so the key alone orders the pairs
RECURSIVE sorted(_)
sorted(items) ==
  IF items = <<>> THEN <<>>
  ELSE LET i == CHOOSE i \in 1..Len(items) :
                  \A j \in 1..Len(items) : j = i \/ StrLess(items[i][1], items[j][1])
       IN <<items[i]>> \o sorted(SubSeq(items, 1, i - 1) \o SubSeq(items, i + 1, Len(items)))

\* deque.pop() in place of deque.popleft(): the entry at the tail
pop_right(queue) == <<queue[Len(queue)], SubSeq(queue, 1, Len(queue) - 1)>>

\* deque.popleft(): <<returned entry, queue afterwards>>
popleft(queue) == <<Head(queue), Tail(queue)>>

\* heapq._siftdown(heap, startpos, pos); positions are 0-based as in Python
RECURSIVE siftdown_loop(_, _, _, _)
siftdown_loop(heap, startpos, pos, newitem) ==
  IF pos > startpos
  THEN LET parentpos == (pos - 1) \div 2
           parent == heap[parentpos + 1]
       IN IF TupleLess(newitem, parent)
          THEN siftdown_loop([heap EXCEPT ![pos + 1] = parent], startpos, parentpos, newitem)
          ELSE [heap EXCEPT ![pos + 1] = newitem]
  ELSE [heap EXCEPT ![pos + 1] = newitem]

siftdown(heap, startpos, pos) == siftdown_loop(heap, startpos, pos, heap[pos + 1])

\* heapq._siftup(heap, pos)
RECURSIVE siftup_loop(_, _, _, _)
siftup_loop(heap, startpos, pos, newitem) ==
  LET endpos == Len(heap)
      childpos == 2 * pos + 1
  IN IF childpos < endpos
     THEN LET rightpos == childpos + 1
              c == IF rightpos < endpos /\ ~TupleLess(heap[childpos + 1], heap[rightpos + 1])
                   THEN rightpos ELSE childpos
          IN siftup_loop([heap EXCEPT ![pos + 1] = heap[c + 1]], startpos, c, newitem)
     ELSE siftdown_loop([heap EXCEPT ![pos + 1] = newitem], startpos, pos, newitem)

siftup(heap, pos) == siftup_loop(heap, pos, pos, heap[pos + 1])

\* list.append in place of heapq.heappush: the heap order is not restored
heappush_append(heap, item) == Append(heap, item)

heappush(heap, item) == siftdown(Append(heap, item), 0, Len(heap))

\* list.pop() in place of heapq.heappop: the last entry of the array
list_pop(heap) == <<heap[Len(heap)], SubSeq(heap, 1, Len(heap) - 1)>>

\* heapq.heappop(heap): <<returned item, heap afterwards>>
heappop(heap) ==
  LET lastelt == heap[Len(heap)]
      rest == SubSeq(heap, 1, Len(heap) - 1)
  IN IF rest # <<>>
     THEN <<rest[1], siftup([rest EXCEPT ![1] = lastelt], 0)>>
     ELSE <<lastelt, rest>>


\* ------------------------------------------------------------------------
\* State
\* ------------------------------------------------------------------------
VARIABLES
  graph,           \* adjacency mapping passed to the search
  heuristic,       \* heuristic table passed to astar_collect_trace
  start, goal,     \* start and goal identifiers
  todo,            \* the searches the caller still has to invoke, in order
  algo,            \* the search being (or last) invoked
  pc,              \* "call", "loop", "returned" or "raised"
  open_list,       \* open_list / open_queue / open_pq of the running search
  closed_set,
  trace,
  nodes_expanded,
  step,
  results          \* what the invocations so far have returned, in order

vars == <<graph, heuristic, start, goal, todo, algo, pc, open_list, closed_set,
          trace, nodes_expanded, step, results>>

inputs == <<graph, heuristic, start, goal>>

\* ------------------------------------------------------------------------
\* The state of MultithreadedSortingGUI (src/Multithreading.py)
\* ------------------------------------------------------------------------
VARIABLES
  array_size,
  mid_point,
  original_array,
  working_array,
  sorted_array,
  is_sorting,
  sort_thread1_done,   \* threading.Event: TRUE when set
  sort_thread2_done,
  sorting_complete,
  threads,             \* the live threads of a run: name -> position and locals
  after_queue,         \* callbacks handed to root.after(0, ...) and not yet run
  info_label           \* the last text of info_label: "Generated", "Starting",
                       \* or the verdict of sorting_complete_callback

sort_vars == <<array_size, mid_point, original_array, working_array, sorted_array,
               is_sorting, sort_thread1_done, sort_thread2_done, sorting_complete,
               threads, after_queue, info_label>>

\* ------------------------------------------------------------------------
\* The state of TileShatterGame (src/TileShatter.py)
\* ------------------------------------------------------------------------
VARIABLES
  nums,             \* [1] + multipliers + [1]
  dp,               \* dp[left][right], a list of rows
  order,            \* order[left][right], a list of rows
  current_score,
  optimal_score,
  active_indices,
  canvas_tiles,     \* the tiles drawn on the canvas, each bound to shatter(idx)
  update_stack,     \* the calls of shatter that are inside root.update(),
                    \* innermost last: <<idx, curr_pos>>
  draw_timers,      \* pending root.after(150, self.draw_tiles)
  status_label      \* what _check_game_complete last reported (status and hint)

tile_vars == <<nums, dp, order, current_score, optimal_score, active_indices,
               canvas_tiles, update_stack, draw_timers, status_label>>

\* ------------------------------------------------------------------------
\* The state of TreeGUI (src/server_Node_one_to_one.py)
\* ------------------------------------------------------------------------
VARIABLES
  root_node,        \* the tree shown: the set of its nodes, each the path of
                    \* "L" and "R" steps from the root (the root is <<>>)
  node_center,      \* the nodes of root_node whose center flag is set
  node_dp,          \* dp_not_placed and dp_placed of the nodes of root_node
  is_running,
  stop_requested,
  task,             \* the thread run_animation starts: <<>> when there is none
  tree_after,       \* callbacks handed to root.after(0, ...) and not yet run
  result_label      \* the "Result:" statistic: <<>> or <<result>>

tree_vars == <<root_node, node_center, node_dp, is_running, stop_requested, task,
               tree_after, result_label>>

\* the state of the programs other than the search engine
others == <<sort_vars, tile_vars, tree_vars>>

\* the state of the programs other than MultithreadedSortingGUI
beside_sorting == <<vars, tile_vars, tree_vars>>

\* the state of the programs other than TileShatterGame
beside_tiles == <<vars, sort_vars, tree_vars>>

\* the state of the programs other than TreeGUI
beside_tree == <<vars, sort_vars, tile_vars>>

\* ------------------------------------------------------------------------
\* Generated inputs: every graph over SmallNodes with at most MaxEdges
\* edges, each light (1) or heavy (MaxWeight), declared in ascending or
\* descending order; every heuristic table with values 0 or MaxH
\* ------------------------------------------------------------------------
PairSet == {p \in (1..Len(SmallNodes)) \X (1..Len(SmallNodes)) : p[1] < p[2]}

Pair(i, j) == IF i < j THEN <<i, j>> ELSE <<j, i>>

Weights == {1, MaxWeight}
HValues == {0, MaxH}

\* 0 stands for "no edge"
WeightMaps(ws) ==
  {w \in [PairSet -> {0} \cup ws] : Cardinality({p \in PairSet : w[p] # 0}) <= MaxEdges}

\* the adjacency mapping of the weight map w; sign = -1 gives negative weights
small_graph(w, descending, sign) ==
  [n \in {SmallNodes[i] : i \in 1..Len(SmallNodes)} |->
     LET i == CHOOSE i \in 1..Len(SmallNodes) : SmallNodes[i] = n
         all == [j \in 1..Len(SmallNodes) |->
                   <<SmallNodes[j], IF j = i THEN 0 ELSE sign * w[Pair(i, j)]>>]
         declared == SelectSeq(all, LAMBDA e : e[2] # 0)
     IN IF descending THEN reversed(declared) ELSE declared]

Nodes(g) == DOMAIN g

Searches == {"dfs", "bfs", "astar"}

\* the inputs are well-formed: identifiers exist and every weight is positive
ValidInput ==
  /\ start \in Nodes(graph)
  /\ goal \in Nodes(graph)
  /\ \A n \in Nodes(graph) : \A i \in 1..Len(graph[n]) : graph[n][i][2] > 0

Locals0 ==
  /\ algo = "none"
  /\ pc = "call"
  /\ open_list = <<>>
  /\ closed_set = {}
  /\ trace = <<>>
  /\ nodes_expanded = 0
  /\ step = 0
  /\ results = <<>>

\* the program itself: the reference graph, every search run by
\* draw_comparison_static and then again by animate_search
RefInit ==
  /\ graph = graph_ref
  /\ heuristic = heuristic_ref
  /\ start = start_ref
  /\ goal = goal_ref
  /\ todo = <<"dfs", "bfs", "astar", "dfs", "bfs", "astar">>
  /\ Locals0

\* well-formed generated inputs, one search invoked twice
SmallInit ==
  /\ \E w \in WeightMaps(Weights), a \in Searches, d \in BOOLEAN :
       /\ graph = small_graph(w, d, 1)
       /\ d => a = "dfs"
       /\ todo = <<a, a>>
       /\ heuristic \in [Nodes(graph) -> HValues]
       /\ start \in Nodes(graph)
       /\ goal \in Nodes(graph)
       /\ heuristic[goal] = 0
       /\ a # "astar" => \A n \in Nodes(graph) : heuristic[n] = 0
  /\ Locals0

\* ill-formed inputs: an identifier that is no node, or negative weights
DefectInit ==
  /\ \E w \in WeightMaps({1}), a \in Searches, defect \in {"start", "goal", "weight"} :
       /\ graph = small_graph(w, FALSE, IF defect = "weight" THEN -1 ELSE 1)
       /\ todo = <<a>>
       /\ heuristic = [n \in Nodes(graph) |-> 0]
       /\ start \in IF defect = "start" THEN {Absent} ELSE Nodes(graph)
       /\ goal \in IF defect = "goal" THEN {Absent} ELSE Nodes(graph)
       /\ defect = "weight" => \E p \in PairSet : w[p] # 0
  /\ Locals0

\* the heuristic values of the maps with a detour: up to the longest road
\* and one more
DetourHValues == {0, MaxWeight, MaxWeight + 1}

\* maps with a direct road and a detour: the roads A-B, B-C, A-C and C-D
DetourMaps ==
  {w \in [PairSet -> {0} \cup Weights] :
     \A p \in PairSet : w[p] # 0 <=> p \in {<<1, 2>>, <<2, 3>>, <<1, 3>>, <<3, 4>>}}

\* well-formed inputs for A* on the maps with a detour, from A to D, with
\* heuristics that may be inconsistent
DetourInit ==
  /\ \E w \in DetourMaps :
       /\ graph = small_graph(w, FALSE, 1)
       /\ todo = <<"astar">>
       /\ heuristic \in [Nodes(graph) -> DetourHValues]
       /\ start = SmallNodes[1]
       /\ goal = SmallNodes[Len(SmallNodes)]
       /\ heuristic[goal] = 0
  /\ Locals0

\* MultithreadedSortingGUI before it is constructed
SortingAbsent ==
  /\ array_size = 0
  /\ mid_point = 0
  /\ original_array = <<>>
  /\ working_array = <<>>
  /\ sorted_array = <<>>
  /\ is_sorting = FALSE
  /\ sort_thread1_done = FALSE
  /\ sort_thread2_done = FALSE
  /\ sorting_complete = FALSE
  /\ threads = <<>>
  /\ after_queue = <<>>
  /\ info_label = ""

\* TileShatterGame as its constructor leaves it (no game started)
TilesAbsent ==
  /\ nums = <<>>
  /\ dp = <<>>
  /\ order = <<>>
  /\ current_score = 0
  /\ optimal_score = 0
  /\ active_indices = <<>>
  /\ canvas_tiles = {}
  /\ update_stack = <<>>
  /\ draw_timers = 0
  /\ status_label = <<>>

\* TreeGUI before it is constructed
TreeAbsent ==
  /\ root_node = {}
  /\ node_center = {}
  /\ node_dp = <<>>
  /\ is_running = FALSE
  /\ stop_requested = FALSE
  /\ task = <<>>
  /\ tree_after = <<>>
  /\ result_label = <<>>

\* ABD.py runs on its own: no other program of the repository is started
OthersAbsent == SortingAbsent /\ TilesAbsent /\ TreeAbsent

Init == (RefInit \/ SmallInit \/ DefectInit \/ DetourInit) /\ OthersAbsent

\* ------------------------------------------------------------------------
\* Trace records and results
\* ------------------------------------------------------------------------
\* a record whose step is cut to the whole step: 'step': step for every record
Rec_whole_step(st, current, path, cost, open, closed, action) ==
  [step |-> 2 * (st \div 2), current |-> current, path |-> path, cost |-> cost,
   open |-> open, closed |-> closed, action |-> action]

\* a record of dfs_collect_trace / bfs_collect_trace
Rec(st, current, path, cost, open, closed, action) ==
  [step |-> st, current |-> current, path |-> path, cost |-> cost,
   open |-> open, closed |-> closed, action |-> action]

\* a record of astar_collect_trace, which also carries 'f'
RecF(st, current, path, cost, f, open, closed, action) ==
  [step |-> st, current |-> current, path |-> path, cost |-> cost, f |-> f,
   open |-> open, closed |-> closed, action |-> action]

\* [n[0] for n in open_list]
OpenNames(open) == [i \in 1..Len(open) |-> open[i][1]]

\* [(f, n) for f, g, n, p in open_pq]
OpenFN(open) == [i \in 1..Len(open) |-> <<open[i][1], open[i][3]>>]

\* the records share one closed set instead of holding copies: every record
\* already in the trace shows the closed set as it is now
goal_found_shared(tr, pop_rec, goal_rec) ==
  [i \in 1..Len(tr) |-> [tr[i] EXCEPT !.closed = pop_rec.closed]] \o <<pop_rec, goal_rec>>

\* the goal record left out of the trace
goal_found_unrecorded(tr, pop_rec, goal_rec) == Append(tr, pop_rec)

\* the trace when the popped node is the goal: the pop record, then the
\* goal record (trace.append twice, lines 210 and 219)
goal_found(tr, pop_rec, goal_rec) == tr \o <<pop_rec, goal_rec>>

\* the returned tuple with nodes_expanded and step in each other's place
Result_swapped(a, path, cost, expanded, steps, tr) ==
  [algo |-> a, path |-> path, cost |-> cost, nodes_expanded |-> steps,
   steps |-> expanded, trace |-> tr]

\* the tuple a search returns, without execution_time
Result(a, path, cost, expanded, steps, tr) ==
  [algo |-> a, path |-> path, cost |-> cost, nodes_expanded |-> expanded,
   steps |-> steps, trace |-> tr]

\* ------------------------------------------------------------------------
\* The expansion loops
\* ------------------------------------------------------------------------
\* the neighbours the loop appends: those not in the closed set, in loop order
neighbors_added(items, closed) ==
  LET kept == SelectSeq(items, LAMBDA e : e[1] \notin closed)
  IN [i \in 1..Len(kept) |-> kept[i][1]]

\* every neighbour is appended, closed or not
RECURSIVE push_all_unchecked(_, _, _, _, _)
push_all_unchecked(open, items, closed, path, cost) ==
  IF items = <<>> THEN open
  ELSE push_all_unchecked(
         Append(open, <<Head(items)[1], Append(path, Head(items)[1]), cost + Head(items)[2]>>),
         Tail(items), closed, path, cost)

\* open_list.append((neighbor, path + [neighbor], cost + weight)) over items
RECURSIVE push_all(_, _, _, _, _)
push_all(open, items, closed, path, cost) ==
  IF items = <<>> THEN open
  ELSE LET neighbor == Head(items)[1]
           weight == Head(items)[2]
       IN push_all(IF neighbor \notin closed
                   THEN Append(open, <<neighbor, Append(path, neighbor), cost + weight>>)
                   ELSE open,
                   Tail(items), closed, path, cost)

\* the cost so far dropped: only the last edge is counted
new_g_last_edge(g_score, weight) == weight

\* new_g = g_score + weight
new_g_of(g_score, weight) == g_score + weight

\* a neighbour is pushed only when the frontier holds no entry for it yet
RECURSIVE heappush_all_dedup(_, _, _, _, _)
heappush_all_dedup(open, items, closed, path, g_score) ==
  IF items = <<>> THEN open
  ELSE LET neighbor == Head(items)[1]
           weight == Head(items)[2]
           new_g == g_score + weight
           new_f == new_g + heuristic[neighbor]
       IN heappush_all_dedup(
            IF neighbor \notin closed /\ \A i \in 1..Len(open) : open[i][3] # neighbor
            THEN heappush(open, <<new_f, new_g, neighbor, Append(path, neighbor)>>)
            ELSE open,
            Tail(items), closed, path, g_score)

\* heapq.heappush(open_pq, (new_f, new_g, neighbor, path + [neighbor])) over items
RECURSIVE heappush_all(_, _, _, _, _)
heappush_all(open, items, closed, path, g_score) ==
  IF items = <<>> THEN open
  ELSE LET neighbor == Head(items)[1]
           weight == Head(items)[2]
           new_g == new_g_of(g_score, weight)
           new_f == new_g + heuristic[neighbor]
       IN heappush_all(IF neighbor \notin closed
                       THEN heappush(open, <<new_f, new_g, neighbor, Append(path, neighbor)>>)
                       ELSE open,
                       Tail(items), closed, path, g_score)

\* the closed-set check left out: a popped node is always taken as new
already_closed_never(current_node, closed) == FALSE

\* if current_node in closed_set: continue
already_closed(current_node, closed) == current_node \in closed

\* closed_set.add(current_node)
closed_add_forgotten(closed, current_node) == closed

closed_add(closed, current_node) == closed \cup {current_node}

\* ------------------------------------------------------------------------
\* dfs_collect_trace
\* ------------------------------------------------------------------------
\* the closed set of the previous invocation kept (a set that outlives the call)
closed_set_kept == closed_set

\* closed_set = set(): every invocation starts with a closed set of its own
closed_set_new == {}

Callable(a) ==
  /\ pc \in {"call", "returned"}
  /\ todo # <<>>
  /\ Head(todo) = a

\* lines 190-205: the locals and the 'Initialize' record
dfs_enter ==
  /\ Callable("dfs")
  /\ algo' = "dfs"
  /\ todo' = Tail(todo)
  /\ open_list' = << <<start, <<start>>, 0>> >>
  /\ closed_set' = closed_set_new
  /\ nodes_expanded' = 0
  /\ trace' = <<Rec(0, "None", <<>>, 0, <<start>>, {}, "Initialize")>>
  /\ step' = 0
  /\ pc' = "loop"
  /\ UNCHANGED <<others, inputs, results>>

\* the neighbours walked in declared order, not reversed
dfs_items_declared(current_node) == graph[current_node]

\* every neighbour walked twice
dfs_items_twice(current_node) ==
  reversed(graph[current_node]) \o reversed(graph[current_node])

\* the order in which DFS walks graph[current_node]
dfs_items(current_node) == reversed(graph[current_node])

\* one iteration of the while loop, lines 206-245
dfs_iterate ==
  /\ pc = "loop" /\ algo = "dfs"
  /\ open_list # <<>>
  /\ step < MaxSteps
  /\ LET entry == open_list[Len(open_list)]
         popped == SubSeq(open_list, 1, Len(open_list) - 1)
         current_node == entry[1]
         path == entry[2]
         cost == entry[3]
         pop_rec == Rec(2 * (step + 1), current_node, path, cost, OpenNames(popped),
                        closed_set, "Pop from Stack")
     IN /\ step' = step + 1
        /\ IF current_node = goal
           THEN /\ trace' = goal_found(trace, pop_rec,
                             Rec(2 * (step + 1) + 1, current_node, path, cost,
                                 OpenNames(popped), closed_set, "GOAL FOUND!"))
                /\ open_list' = popped
                /\ pc' = "returned"
                /\ results' = Append(results, Result("dfs", Some(path), Some(cost),
                                                     nodes_expanded, step', trace'))
                /\ UNCHANGED <<closed_set, nodes_expanded>>
           ELSE IF already_closed(current_node, closed_set)
           THEN /\ trace' = Append(trace, pop_rec)
                /\ open_list' = popped
                /\ UNCHANGED <<closed_set, nodes_expanded, pc, results>>
           ELSE IF current_node \notin DOMAIN graph
           THEN \* graph[current_node] raises KeyError
                /\ closed_set' = closed_add(closed_set, current_node)
                /\ nodes_expanded' = nodes_expanded + 1
                /\ trace' = Append(trace, pop_rec)
                /\ open_list' = popped
                /\ pc' = "raised"
                /\ UNCHANGED results
           ELSE /\ closed_set' = closed_add(closed_set, current_node)
                /\ nodes_expanded' = nodes_expanded + 1
                /\ open_list' = push_all(popped, dfs_items(current_node), closed_set',
                                         path, cost)
                /\ trace' = IF neighbors_added(dfs_items(current_node), closed_set') # <<>>
                            THEN trace \o <<pop_rec,
                                   Rec(2 * (step + 1) + 1, current_node, path, cost,
                                       OpenNames(open_list'), closed_set', "Expand")>>
                            ELSE Append(trace, pop_rec)
                /\ UNCHANGED <<pc, results>>
  /\ UNCHANGED <<others, inputs, todo, algo>>

\* lines 206, 247-248: the frontier is empty
dfs_exhausted ==
  /\ pc = "loop" /\ algo = "dfs"
  /\ open_list = <<>>
  /\ pc' = "returned"
  /\ results' = Append(results, Result("dfs", None, None, nodes_expanded, step, trace))
  /\ UNCHANGED <<others, inputs, todo, algo, open_list, closed_set, trace, nodes_expanded, step>>

\* ------------------------------------------------------------------------
\* bfs_collect_trace
\* ------------------------------------------------------------------------
\* lines 250-264
bfs_enter ==
  /\ Callable("bfs")
  /\ algo' = "bfs"
  /\ todo' = Tail(todo)
  /\ open_list' = << <<start, <<start>>, 0>> >>
  /\ closed_set' = closed_set_new
  /\ nodes_expanded' = 0
  /\ trace' = <<Rec(0, "None", <<>>, 0, <<start>>, {}, "Initialize")>>
  /\ step' = 0
  /\ pc' = "loop"
  /\ UNCHANGED <<others, inputs, results>>

\* only the first neighbour in sorted order is walked by BFS
bfs_items_first_only(current_node) ==
  IF graph[current_node] = <<>> THEN <<>> ELSE <<sorted(graph[current_node])[1]>>

\* sorted(..., reverse=True): the neighbours in descending order
bfs_items_descending(current_node) == reversed(sorted(graph[current_node]))

\* the order in which BFS walks graph[current_node]
bfs_items(current_node) == sorted(graph[current_node])

\* one iteration of the while loop, lines 266-305
bfs_iterate ==
  /\ pc = "loop" /\ algo = "bfs"
  /\ open_list # <<>>
  /\ step < MaxSteps
  /\ LET entry == popleft(open_list)[1]
         popped == popleft(open_list)[2]
         current_node == entry[1]
         path == entry[2]
         cost == entry[3]
         pop_rec == Rec(2 * (step + 1), current_node, path, cost, OpenNames(popped),
                        closed_set, "Dequeue")
     IN /\ step' = step + 1
        /\ IF current_node = goal
           THEN /\ trace' = goal_found(trace, pop_rec,
                             Rec(2 * (step + 1) + 1, current_node, path, cost,
                                 OpenNames(popped), closed_set, "GOAL FOUND!"))
                /\ open_list' = popped
                /\ pc' = "returned"
                /\ results' = Append(results, Result("bfs", Some(path), Some(cost),
                                                     nodes_expanded, step', trace'))
                /\ UNCHANGED <<closed_set, nodes_expanded>>
           ELSE IF already_closed(current_node, closed_set)
           THEN /\ trace' = Append(trace, pop_rec)
                /\ open_list' = popped
                /\ UNCHANGED <<closed_set, nodes_expanded, pc, results>>
           ELSE IF current_node \notin DOMAIN graph
           THEN \* graph[current_node] raises KeyError
                /\ closed_set' = closed_add(closed_set, current_node)
                /\ nodes_expanded' = nodes_expanded + 1
                /\ trace' = Append(trace, pop_rec)
                /\ open_list' = popped
                /\ pc' = "raised"
                /\ UNCHANGED results
           ELSE /\ closed_set' = closed_add(closed_set, current_node)
                /\ nodes_expanded' = nodes_expanded + 1
                /\ open_list' = push_all(popped, bfs_items(current_node), closed_set',
                                         path, cost)
                /\ trace' = IF neighbors_added(bfs_items(current_node), closed_set') # <<>>
                            THEN trace \o <<pop_rec,
                                   Rec(2 * (step + 1) + 1, current_node, path, cost,
                                       OpenNames(open_list'), closed_set', "Expand")>>
                            ELSE Append(trace, pop_rec)
                /\ UNCHANGED <<pc, results>>
  /\ UNCHANGED <<others, inputs, todo, algo>>

\* lines 266, 307-308: the frontier is empty
bfs_exhausted ==
  /\ pc = "loop" /\ algo = "bfs"
  /\ open_list = <<>>
  /\ pc' = "returned"
  /\ results' = Append(results, Result("bfs", None, None, nodes_expanded, step, trace))
  /\ UNCHANGED <<others, inputs, todo, algo, open_list, closed_set, trace, nodes_expanded, step>>

\* ------------------------------------------------------------------------
\* astar_collect_trace
\* ------------------------------------------------------------------------
\* lines 310-324; heuristic[start] raises KeyError before any local exists
astar_enter ==
  /\ Callable("astar")
  /\ algo' = "astar"
  /\ todo' = Tail(todo)
  /\ closed_set' = closed_set_new
  /\ nodes_expanded' = 0
  /\ step' = 0
  /\ IF start \in DOMAIN heuristic
     THEN /\ open_list' = << <<heuristic[start], 0, start, <<start>> >> >>
          /\ trace' = <<RecF(0, "None", <<>>, 0, heuristic[start],
                             << <<heuristic[start], start>> >>, {}, "Initialize")>>
          /\ pc' = "loop"
     ELSE /\ open_list' = <<>>
          /\ trace' = <<>>
          /\ pc' = "raised"
  /\ UNCHANGED <<others, inputs, results>>

\* only the first neighbour in sorted order is walked
astar_items_first_only(current_node) ==
  IF graph[current_node] = <<>> THEN <<>> ELSE <<sorted(graph[current_node])[1]>>

\* the order in which A* walks graph[current_node]
astar_items(current_node) == sorted(graph[current_node])

\* one iteration of the while loop, lines 326-370.  Every identifier that
\* reaches heuristic[...] in the loop is start or a key of graph, and the
\* heuristic tables here have the keys of graph, so no lookup fails.
astar_iterate ==
  /\ pc = "loop" /\ algo = "astar"
  /\ open_list # <<>>
  /\ step < MaxSteps
  /\ LET entry == heappop(open_list)[1]
         popped == heappop(open_list)[2]
         f_score == entry[1]
         g_score == entry[2]
         current_node == entry[3]
         path == entry[4]
         pop_rec == RecF(2 * (step + 1), current_node, path, g_score, f_score,
                         OpenFN(popped), closed_set, "Pop min f(n)")
     IN /\ step' = step + 1
        /\ IF current_node = goal
           THEN /\ trace' = goal_found(trace, pop_rec,
                             RecF(2 * (step + 1) + 1, current_node, path, g_score, f_score,
                                  OpenFN(popped), closed_set, "OPTIMAL GOAL!"))
                /\ open_list' = popped
                /\ pc' = "returned"
                /\ results' = Append(results, Result("astar", Some(path), Some(g_score),
                                                     nodes_expanded, step', trace'))
                /\ UNCHANGED <<closed_set, nodes_expanded>>
           ELSE IF already_closed(current_node, closed_set)
           THEN /\ trace' = Append(trace, pop_rec)
                /\ open_list' = popped
                /\ UNCHANGED <<closed_set, nodes_expanded, pc, results>>
           ELSE /\ closed_set' = closed_add(closed_set, current_node)
                /\ nodes_expanded' = nodes_expanded + 1
                /\ open_list' = heappush_all(popped, astar_items(current_node), closed_set',
                                             path, g_score)
                /\ trace' = IF neighbors_added(astar_items(current_node), closed_set') # <<>>
                            THEN trace \o <<pop_rec,
                                   RecF(2 * (step + 1) + 1, current_node, path, g_score,
                                        f_score, OpenFN(open_list'), closed_set', "Expand")>>
                            ELSE Append(trace, pop_rec)
                /\ UNCHANGED <<pc, results>>
  /\ UNCHANGED <<others, inputs, todo, algo>>

\* lines 326, 372-373: the frontier is empty
astar_exhausted ==
  /\ pc = "loop" /\ algo = "astar"
  /\ open_list = <<>>
  /\ pc' = "returned"
  /\ results' = Append(results, Result("astar", None, None, nodes_expanded, step, trace))
  /\ UNCHANGED <<others, inputs, todo, algo, open_list, closed_set, trace, nodes_expanded, step>>

\* ------------------------------------------------------------------------
\* Specification
\* ------------------------------------------------------------------------
Next ==
  \/ dfs_enter \/ dfs_iterate \/ dfs_exhausted
  \/ bfs_enter \/ bfs_iterate \/ bfs_exhausted
  \/ astar_enter \/ astar_iterate \/ astar_exhausted

Spec == Init /\ [][Next]_vars

\* ------------------------------------------------------------------------
\* Reference computations used by the properties
\* ------------------------------------------------------------------------
RECURSIVE SumOver(_, _)
SumOver(S, f) ==
  IF S = {} THEN 0
  ELSE LET x == CHOOSE x \in S : TRUE IN f[x] + SumOver(S \ {x}, f)

\* number of adjacency entries of the nodes in S
Degrees(S) == SumOver(S \cap DOMAIN graph, [n \in DOMAIN graph |-> Len(graph[n])])

LastResult == results[Len(results)]

MinOf(S) == CHOOSE x \in S : \A y \in S : x <= y

\* the weight of the entry n -> m of the adjacency mapping, None without one
Weight(n, m) ==
  LET hits == SelectSeq(graph[n], LAMBDA e : e[1] = m)
  IN IF hits = <<>> THEN None ELSE Some(hits[1][2])

\* one round of Bellman-Ford towards a target: D is a set of <<node, cost>>,
\* the cheapest walks found so far; every adjacency entry n -> m extends them
\* by its weight, or by 1 when edges are counted (hops)
CheapestOf(D) == {p \in D : \A q \in D : q[1] = p[1] => p[2] <= q[2]}

RelaxOnce(D, hops) ==
  CheapestOf(D \cup UNION {UNION {{<<n, (IF hops THEN 1 ELSE graph[n][i][2]) + p[2]>> :
                                    p \in {q \in D : q[1] = graph[n][i][1]}} :
                                  i \in 1..Len(graph[n])} :
                           n \in DOMAIN graph})

RECURSIVE Relax(_, _, _)
Relax(D, k, hops) == IF k = 0 THEN D ELSE Relax(RelaxOnce(D, hops), k - 1, hops)

AsTable(D) ==
  [n \in DOMAIN graph |->
     IF \E p \in D : p[1] = n THEN Some((CHOOSE p \in D : p[1] = n)[2]) ELSE None]

\* the true shortest-path cost from every node to target (positive weights):
\* d[n] is None when target cannot be reached from n
ShortestTo(target) ==
  AsTable(Relax({<<target, 0>>}, Cardinality(DOMAIN graph) - 1, FALSE))

\* the fewest edges of a path from every node to target, None when unreachable
HopsTo(target) ==
  AsTable(Relax({<<target, 0>>}, Cardinality(DOMAIN graph) - 1, TRUE))

\* the nodes of start's connected component
Component == {n \in DOMAIN graph : HopsTo(start)[n] # None}

Reachable == start \in DOMAIN graph /\ goal \in DOMAIN graph /\ HopsTo(goal)[start] # None

\* the program's own run: the reference graph from Glogow to Plock
IsReference ==
  graph = graph_ref /\ heuristic = heuristic_ref /\ start = start_ref /\ goal = goal_ref

\* some start-to-goal path has the fewest edges and the lowest cost at once:
\* the cheapest walk with no more edges than the fewest-edge path costs no
\* more than the cheapest walk of any length
FewestHopPathIsCheapest ==
  /\ Reachable
  /\ AsTable(Relax({<<goal, 0>>}, HopsTo(goal)[start][1], FALSE))[start] =
       ShortestTo(goal)[start]

\* h never overestimates the true remaining cost d
Admissible(h, d) == \A n \in DOMAIN graph : d[n] # None => h[n] <= d[n][1]

\* h(n) <= w(n, n') + h(n') over every edge
Consistent(h) ==
  \A n \in DOMAIN graph : \A i \in 1..Len(graph[n]) :
    h[n] <= graph[n][i][2] + h[graph[n][i][1]]

\* some pop record of tr shows a node that was already closed when popped
PoppedClosed(tr) ==
  \E i \in 1..Len(tr) : tr[i].step % 2 = 0 /\ tr[i].current \in tr[i].closed

\* ------------------------------------------------------------------------
\* C1: on well-formed input every search terminates and returns a result.
\* Every iteration of the loop is one pop; the pops made so far plus the
\* entries still in the frontier never exceed one plus the adjacency entries
\* of the closed nodes, no more nodes are expanded than the graph has, and a
\* running search is never stuck and never raises (every frontier entry is
\* for a node of the graph): it can only go on to return.
\* ------------------------------------------------------------------------
C1_Terminates ==
  /\ pc = "loop" => step + Len(open_list) <= 1 + Degrees(closed_set)
  /\ pc = "loop" => nodes_expanded <= Cardinality(Nodes(graph) \cup {start})
  /\ ValidInput /\ pc = "loop" =>
       /\ open_list # <<>> => step < MaxSteps
       /\ \A i \in 1..Len(open_list) :
            open_list[i][IF algo = "astar" THEN 3 ELSE 1] \in DOMAIN graph
  /\ ValidInput => pc # "raised"

\* a search over a cycle, where a closed node came off the frontier again,
\* has returned without a path
C1_Witness ==
  /\ ValidInput
  /\ pc = "returned"
  /\ LastResult.path = None
  /\ PoppedClosed(LastResult.trace)
  /\ Cardinality(closed_set) >= 3

\* ------------------------------------------------------------------------
\* C2: with positive weights, a heuristic that is admissible and consistent
\* for the goal and a reachable goal, the cost astar_collect_trace returns
\* is the true shortest-path cost from start to goal (Bellman-Ford).
\* ------------------------------------------------------------------------
C2_AstarOptimal ==
  (pc = "returned" /\ algo = "astar" /\ ValidInput) =>
    LET d == ShortestTo(goal)
    IN (Admissible(heuristic, d) /\ Consistent(heuristic) /\ d[start] # None) =>
         LastResult.cost = d[start]

\* A* returned a path that is cheaper than the direct edge from start to
\* goal, under a consistent, admissible heuristic that is not all zero
C2_Witness ==
  /\ pc = "returned" /\ algo = "astar" /\ ValidInput
  /\ Admissible(heuristic, ShortestTo(goal)) /\ Consistent(heuristic)
  /\ \E n \in DOMAIN heuristic : heuristic[n] > 0
  /\ Weight(start, goal) # None
  /\ LastResult.cost # None
  /\ LastResult.cost[1] < Weight(start, goal)[1]
  /\ LastResult.cost = ShortestTo(goal)[start]

\* ------------------------------------------------------------------------
\* C3: whenever the goal is reachable from start, the path bfs_collect_trace
\* returns has the fewest edges of all start-to-goal paths, whatever the
\* weights are (negative ones included).
\* ------------------------------------------------------------------------
C3_BfsFewestEdges ==
  (pc = "returned" /\ algo = "bfs" /\ Reachable) =>
    /\ LastResult.path # None
    /\ Len(LastResult.path[1]) - 1 = HopsTo(goal)[start][1]

\* BFS returned a fewest-edge path that costs more than the cheapest path
C3_Witness ==
  /\ pc = "returned" /\ algo = "bfs" /\ ValidInput /\ Reachable
  /\ LastResult.path # None
  /\ Len(LastResult.path[1]) - 1 = HopsTo(goal)[start][1]
  /\ LastResult.cost[1] > ShortestTo(goal)[start][1]
  /\ graph # graph_ref

\* ------------------------------------------------------------------------
\* C4: when start and goal are nodes of different connected components, the
\* search raises nothing and returns None for path and cost, the number of
\* nodes of start's component as nodes-expanded count, and the trace it
\* built, whose last record shows an empty frontier.
\* ------------------------------------------------------------------------
C4_UnreachableGoal ==
  (start \in DOMAIN graph /\ goal \in DOMAIN graph /\ ~Reachable) =>
    /\ pc # "raised"
    /\ pc = "returned" =>
         /\ LastResult.path = None
         /\ LastResult.cost = None
         /\ LastResult.nodes_expanded = Cardinality(Component)
         /\ LastResult.trace = trace
         /\ trace[Len(trace)].open = <<>>
         /\ trace[Len(trace)].step = 2 * LastResult.steps

\* A* gave up on a component of at least two nodes that does not hold the goal
C4_Witness ==
  /\ start \in DOMAIN graph /\ goal \in DOMAIN graph /\ ~Reachable
  /\ pc = "returned" /\ algo = "astar"
  /\ LastResult.path = None
  /\ LastResult.nodes_expanded >= 2
  /\ trace[Len(trace)].open = <<>>

\* ------------------------------------------------------------------------
\* C5: within a search the closed set only grows; a popped node that is
\* already closed is dropped (nothing is closed, counted or pushed), and a
\* node is closed and counted only when it was not closed before; at every
\* point, and in the returned tuple, nodes_expanded is the size of the
\* closed set.
\* ------------------------------------------------------------------------
C5_ClosedSet ==
  /\ [](/\ nodes_expanded = Cardinality(closed_set)
        /\ pc = "returned" => LastResult.nodes_expanded = Cardinality(closed_set))
  /\ [][pc = "loop" /\ step' = step + 1 =>
          LET current_node == trace'[Len(trace) + 1].current
          IN /\ closed_set \subseteq closed_set'
             /\ closed_set' \subseteq closed_set \cup {current_node}
             /\ current_node \in closed_set =>
                  /\ closed_set' = closed_set
                  /\ nodes_expanded' = nodes_expanded
                  /\ Len(open_list') = Len(open_list) - 1
                  /\ Len(trace') = Len(trace) + 1
             /\ nodes_expanded' # nodes_expanded =>
                  /\ current_node \notin closed_set
                  /\ closed_set' = closed_set \cup {current_node}
                  /\ nodes_expanded' = nodes_expanded + 1]_vars

\* a node that was already closed has just been popped again and dropped,
\* and the search goes on
C5_Witness ==
  /\ ValidInput /\ pc = "loop" /\ open_list # <<>>
  /\ trace[Len(trace)].step = 2 * step
  /\ trace[Len(trace)].current \in trace[Len(trace)].closed
  /\ trace[Len(trace)].current # goal
  /\ nodes_expanded = Cardinality(closed_set)

\* ------------------------------------------------------------------------
\* C6: a goal record ("GOAL FOUND!" for DFS and BFS, "OPTIMAL GOAL!" for A*)
\* is in the trace only as its last record and only once the search has
\* returned a path; a search that returned a path has that record, and the
\* record's path and cost are the path and cost returned.
\* ------------------------------------------------------------------------
GoalTag == IF algo = "astar" THEN "OPTIMAL GOAL!" ELSE "GOAL FOUND!"

IsGoalRecord(r) == r.action \in {"GOAL FOUND!", "OPTIMAL GOAL!"}

C6_GoalRecordLast ==
  /\ \A i \in 1..Len(trace) :
       IsGoalRecord(trace[i]) =>
         /\ i = Len(trace)
         /\ pc = "returned"
         /\ LastResult.path # None
  /\ (pc = "returned" /\ LastResult.path # None) =>
       /\ LastResult.trace = trace
       /\ trace[Len(trace)].action = GoalTag
       /\ Cardinality({i \in 1..Len(trace) : IsGoalRecord(trace[i])}) = 1
       /\ LastResult.path = Some(trace[Len(trace)].path)
       /\ LastResult.cost = Some(trace[Len(trace)].cost)
       /\ trace[Len(trace)].current = goal

\* A* returned a path of at least two edges and its trace ends with the
\* goal record holding that path
C6_Witness ==
  /\ ValidInput /\ pc = "returned" /\ algo = "astar"
  /\ LastResult.path # None
  /\ Len(LastResult.path[1]) >= 3
  /\ trace[Len(trace)].action = "OPTIMAL GOAL!"
  /\ trace[Len(trace)].path = LastResult.path[1]
  /\ Len(trace) >= 6

\* ------------------------------------------------------------------------
\* C7: two invocations of the same search on the same graph, start, goal and
\* heuristic return the same path, cost, nodes-expanded count, step count
\* and trace.
\* ------------------------------------------------------------------------
C7_Idempotent ==
  \A i, j \in 1..Len(results) :
    results[i].algo = results[j].algo => results[i] = results[j]

\* the second invocation of a search has returned, after expanding at least
\* two nodes and finding a path, just as the first did
C7_Witness ==
  /\ pc = "returned" /\ todo = <<>>
  /\ Len(results) = 2
  /\ results[1].algo = results[2].algo
  /\ results[2].path # None
  /\ results[2].nodes_expanded >= 2
  /\ results[1] = results[2]

\* ------------------------------------------------------------------------
\* C8: on ill-formed input (start or goal is no node of the graph, or a
\* weight is negative) the search fails at call time: it never enters its
\* loop, never returns and has appended no trace record.
\* ------------------------------------------------------------------------
C8_FailFast ==
  ~ValidInput => (pc \in {"call", "raised"} /\ trace = <<>>)

\* ------------------------------------------------------------------------
\* C9 as stated: on the reference graph from Glogow to Plock, if a path with
\* the fewest hops is also a path of lowest cost, bfs_collect_trace and
\* astar_collect_trace return the same path and the same cost.
\* ------------------------------------------------------------------------
C9_SamePathAndCost ==
  (IsReference /\ FewestHopPathIsCheapest) =>
    \A i, j \in 1..Len(results) :
      (results[i].algo = "bfs" /\ results[j].algo = "astar") =>
        /\ results[i].path = results[j].path
        /\ results[i].cost = results[j].cost

\* ------------------------------------------------------------------------
\* C9 as amended: on the reference graph from Glogow to Plock a path with
\* the fewest hops is also a path of lowest cost; astar_collect_trace returns
\* a path of that kind (fewest hops, lowest cost) and bfs_collect_trace
\* returns a path with the same number of hops, which need not be the same
\* path nor cost the same.
\* ------------------------------------------------------------------------
C9_SameHops ==
  IsReference =>
    /\ FewestHopPathIsCheapest
    /\ \A i, j \in 1..Len(results) :
         (results[i].algo = "bfs" /\ results[j].algo = "astar") =>
           /\ results[i].path # None /\ results[j].path # None
           /\ Len(results[i].path[1]) = Len(results[j].path[1])
           /\ Len(results[j].path[1]) - 1 = HopsTo(goal)[start][1]
           /\ results[j].cost = ShortestTo(goal)[start]

\* both searches have returned on the reference graph: the same number of
\* hops, different paths
C9_Witness ==
  /\ IsReference /\ FewestHopPathIsCheapest
  /\ Len(results) >= 3
  /\ results[2].algo = "bfs" /\ results[3].algo = "astar"
  /\ Len(results[2].path[1]) = Len(results[3].path[1])
  /\ results[2].path # results[3].path

\* ------------------------------------------------------------------------
\* C10: on the reference graph from Glogow to Plock the path returned by
\* bfs_collect_trace costs strictly more than the one returned by
\* astar_collect_trace.
\* ------------------------------------------------------------------------
C10_BfsCostsMore ==
  IsReference =>
    \A i, j \in 1..Len(results) :
      (results[i].algo = "bfs" /\ results[j].algo = "astar") =>
        /\ results[i].cost # None /\ results[j].cost # None
        /\ results[i].cost[1] > results[j].cost[1]

\* BFS and A* have both returned on the reference graph, BFS with the
\* greater cost
C10_Witness ==
  /\ IsReference
  /\ Len(results) >= 3
  /\ results[2].algo = "bfs" /\ results[3].algo = "astar"
  /\ results[2].cost[1] > results[3].cost[1]

\* ------------------------------------------------------------------------
\* C11: on the reference graph from Glogow to Plock the path returned by
\* dfs_collect_trace costs strictly more than the one returned by
\* astar_collect_trace (the table and the discussion print DFS as not
\* optimal).
\* ------------------------------------------------------------------------
C11_DfsCostsMore ==
  IsReference =>
    \A i, j \in 1..Len(results) :
      (results[i].algo = "dfs" /\ results[j].algo = "astar") =>
        /\ results[i].cost # None /\ results[j].cost # None
        /\ results[i].cost[1] > results[j].cost[1]

\* ------------------------------------------------------------------------
\* The counts the program prints about its state space
\* ------------------------------------------------------------------------
\* len(graph)
total_cities(g) == Cardinality(DOMAIN g)

\* sum(len(v) for v in graph.values()) // 2
total_roads(g) == SumOver(DOMAIN g, [n \in DOMAIN g |-> Len(g[n])]) \div 2

\* the set of undirected edges of the adjacency mapping, counted directly
EdgeSet(g) == UNION {{{n, g[n][i][1]} : i \in 1..Len(g[n])} : n \in DOMAIN g}

\* ------------------------------------------------------------------------
\* C12: the reference road graph has exactly 17 nodes and exactly 21
\* undirected edges, both as the program counts them (number of keys, half
\* the number of adjacency entries) and as a set of node pairs.
\* ------------------------------------------------------------------------
C12_Counts ==
  IsReference =>
    /\ total_cities(graph) = 17
    /\ total_roads(graph) = 21
    /\ Cardinality(EdgeSet(graph)) = 21

\* ------------------------------------------------------------------------
\* C13: the reference graph is undirected and well-formed: every entry
\* A -> B with weight w has an entry B -> A with the same weight w, every
\* weight is positive, and no node lists itself as a neighbour.
\* ------------------------------------------------------------------------
C13_Undirected ==
  IsReference =>
    \A n \in DOMAIN graph : \A i \in 1..Len(graph[n]) :
      LET m == graph[n][i][1]
          w == graph[n][i][2]
      IN /\ m \in DOMAIN graph
         /\ Weight(m, n) = Some(w)
         /\ w > 0
         /\ m # n

\* a search of the reference graph has expanded both ends of a road and
\* found the road entered from both ends with one weight
C13_Witness ==
  /\ IsReference
  /\ \E n \in closed_set : \E i \in 1..Len(graph[n]) :
       /\ graph[n][i][1] \in closed_set
       /\ Weight(graph[n][i][1], n) = Some(graph[n][i][2])

\* ------------------------------------------------------------------------
\* C14: the reference heuristic is valid for the goal Plock on the reference
\* graph: h(Plock) = 0, h(n) <= w(n, n') + h(n') over every edge
\* (consistency), and h(n) is at most the true shortest-path cost from n to
\* Plock for every node n (admissibility).
\* ------------------------------------------------------------------------
C14_HeuristicValid ==
  IsReference =>
    /\ DOMAIN heuristic = DOMAIN graph
    /\ heuristic[goal] = 0
    /\ Consistent(heuristic)
    /\ \A n \in DOMAIN graph : ShortestTo(goal)[n] # None
    /\ Admissible(heuristic, ShortestTo(goal))

\* A* has returned on the reference graph with the true shortest cost, which
\* the estimate of the start does not exceed, and some estimate is exact
C14_Witness ==
  /\ IsReference
  /\ pc = "returned" /\ algo = "astar"
  /\ LastResult.cost = ShortestTo(goal)[start]
  /\ heuristic[start] <= LastResult.cost[1]
  /\ \E n \in DOMAIN graph \ {goal} : Some(heuristic[n]) = ShortestTo(goal)[n]

\* ========================================================================
\* src/Multithreading.py: two sorting threads and a merging thread
\* ========================================================================
\* the spinbox value generate_array reads (from 4), capped for the check
MaxSizeVar == 5
\* random.randint(5, 100), capped for the check
MaxElement == 6

Elements == 5..MaxElement

\* working_array[k] and working_array[k] = v with Python's 0-based index
at(array, k) == array[k + 1]
put(array, k, v) == [array EXCEPT ![k + 1] = v]

\* [0] * array_size
zeros(n) == [k \in 1..n |-> 0]

\* threading.Event.wait(): returns once the event is set
wait_unblocked(event) == TRUE

wait(event) == event

\* the calls of visual_quick_sort still to be made by a thread, first one
\* first; a call with low >= high returns at once
RECURSIVE pending_calls(_)
pending_calls(stack) ==
  IF stack = <<>> THEN <<>>
  ELSE IF stack[1][1] < stack[1][2] THEN stack
  ELSE pending_calls(Tail(stack))

\* a sorting thread with no call of visual_quick_sort left goes on to set its
\* event; otherwise it enters visual_partition for the first pending call
sorting_locals(at_pc, stack, low, high, pivot, i, j, t1, t2) ==
  [pc |-> at_pc, stack |-> stack, low |-> low, high |-> high, pivot |-> pivot,
   i |-> i, j |-> j, t1 |-> t1, t2 |-> t2]

visual_quick_sort(stack) ==
  LET calls == pending_calls(stack)
  IN IF calls = <<>>
     THEN sorting_locals("set_done", <<>>, 0, 0, 0, 0, 0, 0, 0)
     ELSE sorting_locals("pivot", Tail(calls), calls[1][1], calls[1][2], 0, 0, 0, 0, 0)

\* visual_partition returned pivot_idx and only the part right of the pivot
\* is sorted on
partition_returns_right_only(th, pivot_idx) ==
  visual_quick_sort(<< <<pivot_idx + 1, th.high>> >> \o th.stack)

\* visual_partition returned pivot_idx: the two recursive calls come before
\* whatever the callers still have to do
partition_returns(th, pivot_idx) ==
  visual_quick_sort(<< <<th.low, pivot_idx - 1>>, <<pivot_idx + 1, th.high>> >> \o th.stack)

merge_locals(at_pc, left_idx, right_idx, merge_idx, t1, t2) ==
  [pc |-> at_pc, left_idx |-> left_idx, right_idx |-> right_idx,
   merge_idx |-> merge_idx, t1 |-> t1, t2 |-> t2]

\* where the merging thread goes on after an element is merged: the three
\* while loops of merging_thread_visual in turn
merge_continue(left_idx, right_idx, merge_idx) ==
  IF left_idx < mid_point /\ right_idx < array_size
  THEN merge_locals("compare_left", left_idx, right_idx, merge_idx, 0, 0)
  ELSE IF left_idx < mid_point
  THEN merge_locals("rest_left", left_idx, right_idx, merge_idx, 0, 0)
  ELSE IF right_idx < array_size
  THEN merge_locals("rest_right", left_idx, right_idx, merge_idx, 0, 0)
  ELSE merge_locals("set_complete", left_idx, right_idx, merge_idx, 0, 0)

SortingThreads == {"thread1", "thread2"}

Running(t) == t \in DOMAIN threads

\* ------------------------------------------------------------------------
\* The handlers of the GUI thread
\* ------------------------------------------------------------------------
\* generate_array makes an odd spinbox value even
even_size(size_var) == IF size_var % 2 # 0 THEN size_var + 1 ELSE size_var

\* what generate_array stores for a spinbox value and the numbers drawn
generated(size_var, numbers) ==
  /\ array_size' = even_size(size_var)
  /\ mid_point' = even_size(size_var) \div 2
  /\ original_array' = numbers
  /\ working_array' = numbers
  /\ sorted_array' = zeros(even_size(size_var))

generate_array ==
  /\ ~is_sorting
  /\ \E size_var \in 4..MaxSizeVar :
       \E numbers \in [1..even_size(size_var) -> Elements] :
         generated(size_var, numbers)
  /\ info_label' = "Generated"
  /\ UNCHANGED <<is_sorting, sort_thread1_done, sort_thread2_done, sorting_complete,
                 threads, after_queue, beside_sorting>>

start_sorting ==
  /\ ~is_sorting
  /\ working_array # <<>>
  /\ is_sorting' = TRUE
  /\ sort_thread1_done' = FALSE
  /\ sort_thread2_done' = FALSE
  /\ sorting_complete' = FALSE
  /\ working_array' = original_array
  /\ sorted_array' = zeros(array_size)
  /\ info_label' = "Starting"
  /\ threads' = ("main_thread" :> [pc |-> "create"]) @@ threads
  /\ UNCHANGED <<array_size, mid_point, original_array, after_queue, beside_sorting>>

\* all(sorted_array[i] <= sorted_array[i + 1] for i in range(len - 1))
is_sorted(array) == \A k \in 1..(Len(array) - 1) : array[k] <= array[k + 1]

sorting_complete_callback ==
  /\ after_queue # <<>>
  /\ Head(after_queue) = "sorting_complete_callback"
  /\ after_queue' = Tail(after_queue)
  /\ info_label' = IF is_sorted(sorted_array) THEN "CORRECTLY" ELSE "NOT"
  /\ is_sorting' = FALSE
  /\ UNCHANGED <<array_size, mid_point, original_array, working_array, sorted_array,
                 sort_thread1_done, sort_thread2_done, sorting_complete, threads,
                 beside_sorting>>

\* ------------------------------------------------------------------------
\* run_sorting, the thread start_sorting starts
\* ------------------------------------------------------------------------
run_sorting ==
  /\ Running("main_thread")
  /\ LET at_pc == threads["main_thread"].pc
         goes(to) == [threads EXCEPT !["main_thread"].pc = to]
     IN \/ /\ at_pc = "create"
           /\ threads' =
                ("thread1" :> sorting_locals("unstarted", << <<0, mid_point - 1>> >>,
                                             0, 0, 0, 0, 0, 0, 0)) @@
                ("thread2" :> sorting_locals("unstarted", << <<mid_point, array_size - 1>> >>,
                                             0, 0, 0, 0, 0, 0, 0)) @@
                ("merge_thread" :> merge_locals("unstarted", 0, 0, 0, 0, 0)) @@
                goes("start1")
           /\ UNCHANGED after_queue
        \/ /\ at_pc = "start1"
           /\ threads' = [goes("start2") EXCEPT
                            !["thread1"] = visual_quick_sort(threads["thread1"].stack)]
           /\ UNCHANGED after_queue
        \/ /\ at_pc = "start2"
           /\ threads' = [goes("start3") EXCEPT
                            !["thread2"] = visual_quick_sort(threads["thread2"].stack)]
           /\ UNCHANGED after_queue
        \/ /\ at_pc = "start3"
           /\ threads' = [goes("join1") EXCEPT !["merge_thread"].pc = "wait1"]
           /\ UNCHANGED after_queue
        \/ /\ at_pc = "join1"
           /\ threads["thread1"].pc = "finished"
           /\ threads' = goes("join2")
           /\ UNCHANGED after_queue
        \/ /\ at_pc = "join2"
           /\ threads["thread2"].pc = "finished"
           /\ threads' = goes("join3")
           /\ UNCHANGED after_queue
        \/ /\ at_pc = "join3"
           /\ threads["merge_thread"].pc = "finished"
           /\ threads' = goes("after")
           /\ UNCHANGED after_queue
        \/ /\ at_pc = "after"
           /\ after_queue' = Append(after_queue, "sorting_complete_callback")
           /\ threads' = <<>>
  /\ UNCHANGED <<array_size, mid_point, original_array, working_array, sorted_array,
                 is_sorting, sort_thread1_done, sort_thread2_done, sorting_complete,
                 info_label, beside_sorting>>

\* ------------------------------------------------------------------------
\* sorting_thread_visual: one step is one access to working_array
\* ------------------------------------------------------------------------
\* where the loop of visual_partition goes on with the next j
partition_loop(th, i, j) ==
  [th EXCEPT !.pc = IF j < th.high THEN "compare" ELSE "place_load1",
             !.i = i, !.j = j, !.t1 = 0, !.t2 = 0]

\* pivot = self.working_array[high]; i = low - 1
visual_partition_pivot(t) ==
  /\ Running(t) /\ threads[t].pc = "pivot"
  /\ LET th == threads[t]
     IN threads' = [threads EXCEPT
          ![t] = partition_loop([th EXCEPT !.pivot = at(working_array, th.high)],
                                th.low - 1, th.low)]
  /\ UNCHANGED working_array

\* if self.working_array[j] <= pivot: i += 1
visual_partition_compare(t) ==
  /\ Running(t) /\ threads[t].pc = "compare"
  /\ LET th == threads[t]
     IN threads' = [threads EXCEPT
          ![t] = IF at(working_array, th.j) <= th.pivot
                 THEN [th EXCEPT !.pc = "swap_load1", !.i = th.i + 1]
                 ELSE partition_loop(th, th.i, th.j + 1)]
  /\ UNCHANGED working_array

\* working_array[i], working_array[j] = working_array[j], working_array[i]:
\* the right-hand side is read left to right, then the targets are stored
\* left to right
visual_partition_swap(t) ==
  /\ Running(t)
  /\ LET th == threads[t]
     IN \/ /\ th.pc = "swap_load1"
           /\ threads' = [threads EXCEPT ![t] = [th EXCEPT !.pc = "swap_load2",
                                                   !.t1 = at(working_array, th.j)]]
           /\ UNCHANGED working_array
        \/ /\ th.pc = "swap_load2"
           /\ threads' = [threads EXCEPT ![t] = [th EXCEPT !.pc = "swap_store1",
                                                   !.t2 = at(working_array, th.i)]]
           /\ UNCHANGED working_array
        \/ /\ th.pc = "swap_store1"
           /\ working_array' = put(working_array, th.i, th.t1)
           /\ threads' = [threads EXCEPT ![t].pc = "swap_store2"]
        \/ /\ th.pc = "swap_store2"
           /\ working_array' = put(working_array, th.j, th.t2)
           /\ threads' = [threads EXCEPT ![t] = partition_loop(th, th.i, th.j + 1)]

\* working_array[i + 1], working_array[high] = working_array[high],
\* working_array[i + 1]; return i + 1
visual_partition_place(t) ==
  /\ Running(t)
  /\ LET th == threads[t]
     IN \/ /\ th.pc = "place_load1"
           /\ threads' = [threads EXCEPT ![t] = [th EXCEPT !.pc = "place_load2",
                                                   !.t1 = at(working_array, th.high)]]
           /\ UNCHANGED working_array
        \/ /\ th.pc = "place_load2"
           /\ threads' = [threads EXCEPT ![t] = [th EXCEPT !.pc = "place_store1",
                                                   !.t2 = at(working_array, th.i + 1)]]
           /\ UNCHANGED working_array
        \/ /\ th.pc = "place_store1"
           /\ working_array' = put(working_array, th.i + 1, th.t1)
           /\ threads' = [threads EXCEPT ![t].pc = "place_store2"]
        \/ /\ th.pc = "place_store2"
           /\ working_array' = put(working_array, th.high, th.t2)
           /\ threads' = [threads EXCEPT ![t] = partition_returns(th, th.i + 1)]

\* self.sort_thread1_done.set() or self.sort_thread2_done.set()
sorting_thread_done(t) ==
  /\ Running(t) /\ threads[t].pc = "set_done"
  /\ threads' = [threads EXCEPT ![t].pc = "finished"]
  /\ IF t = "thread1"
     THEN sort_thread1_done' = TRUE /\ UNCHANGED sort_thread2_done
     ELSE sort_thread2_done' = TRUE /\ UNCHANGED sort_thread1_done

sorting_thread_visual ==
  /\ \E t \in SortingThreads :
       \/ /\ \/ visual_partition_pivot(t)
             \/ visual_partition_compare(t)
             \/ visual_partition_swap(t)
             \/ visual_partition_place(t)
          /\ UNCHANGED <<sort_thread1_done, sort_thread2_done>>
       \/ /\ sorting_thread_done(t)
          /\ UNCHANGED working_array
  /\ UNCHANGED <<array_size, mid_point, original_array, sorted_array, is_sorting,
                 sorting_complete, after_queue, info_label, beside_sorting>>

\* ------------------------------------------------------------------------
\* merging_thread_visual: one step is one wait or one access to an array
\* ------------------------------------------------------------------------
merging_thread_wait ==
  /\ Running("merge_thread")
  /\ LET th == threads["merge_thread"]
     IN \/ /\ th.pc = "wait1"
           /\ wait(sort_thread1_done)
           /\ threads' = [threads EXCEPT !["merge_thread"].pc = "wait2"]
        \/ /\ th.pc = "wait2"
           /\ wait(sort_thread2_done)
           /\ threads' = [threads EXCEPT !["merge_thread"] = merge_continue(0, mid_point, 0)]
  /\ UNCHANGED <<sorted_array, sorting_complete>>

\* if self.working_array[left_idx] <= self.working_array[right_idx]
merging_thread_compare ==
  /\ Running("merge_thread")
  /\ LET th == threads["merge_thread"]
     IN \/ /\ th.pc = "compare_left"
           /\ threads' = [threads EXCEPT !["merge_thread"] =
                            [th EXCEPT !.pc = "compare_right",
                                       !.t1 = at(working_array, th.left_idx)]]
        \/ /\ th.pc = "compare_right"
           /\ threads' = [threads EXCEPT !["merge_thread"] =
                            [th EXCEPT !.pc = IF th.t1 <= at(working_array, th.right_idx)
                                              THEN "take_left" ELSE "take_right",
                                       !.t1 = 0]]
  /\ UNCHANGED <<sorted_array, sorting_complete>>

\* self.sorted_array[merge_idx] = self.working_array[left_idx] (or
\* right_idx), in the first loop and in the loops that copy what remains
merging_thread_take ==
  /\ Running("merge_thread")
  /\ LET th == threads["merge_thread"]
     IN \/ /\ th.pc \in {"take_left", "rest_left"}
           /\ threads' = [threads EXCEPT !["merge_thread"] =
                            [th EXCEPT !.pc = "store_left",
                                       !.t1 = at(working_array, th.left_idx)]]
           /\ UNCHANGED sorted_array
        \/ /\ th.pc \in {"take_right", "rest_right"}
           /\ threads' = [threads EXCEPT !["merge_thread"] =
                            [th EXCEPT !.pc = "store_right",
                                       !.t1 = at(working_array, th.right_idx)]]
           /\ UNCHANGED sorted_array
        \/ /\ th.pc = "store_left"
           /\ sorted_array' = put(sorted_array, th.merge_idx, th.t1)
           /\ threads' = [threads EXCEPT !["merge_thread"] =
                            merge_continue(th.left_idx + 1, th.right_idx, th.merge_idx + 1)]
        \/ /\ th.pc = "store_right"
           /\ sorted_array' = put(sorted_array, th.merge_idx, th.t1)
           /\ threads' = [threads EXCEPT !["merge_thread"] =
                            merge_continue(th.left_idx, th.right_idx + 1, th.merge_idx + 1)]
  /\ UNCHANGED sorting_complete

\* self.sorting_complete.set()
merging_thread_done ==
  /\ Running("merge_thread") /\ threads["merge_thread"].pc = "set_complete"
  /\ threads' = [threads EXCEPT !["merge_thread"] = merge_locals("finished", 0, 0, 0, 0, 0)]
  /\ sorting_complete' = TRUE
  /\ UNCHANGED sorted_array

merging_thread_visual ==
  /\ \/ merging_thread_wait
     \/ merging_thread_compare
     \/ merging_thread_take
     \/ merging_thread_done
  /\ UNCHANGED <<array_size, mid_point, original_array, working_array, is_sorting,
                 sort_thread1_done, sort_thread2_done, after_queue, info_label,
                 beside_sorting>>

\* ------------------------------------------------------------------------
\* The sorting program: constructed with an array generated, then the user
\* generates arrays and starts runs, and the threads of a run interleave
\* ------------------------------------------------------------------------
SearchAbsent ==
  /\ graph = <<>>
  /\ heuristic = <<>>
  /\ start = Absent
  /\ goal = Absent
  /\ todo = <<>>
  /\ Locals0

SortInit ==
  /\ SearchAbsent
  /\ TilesAbsent
  /\ TreeAbsent
  /\ \E size_var \in 4..MaxSizeVar :
       \E numbers \in [1..even_size(size_var) -> Elements] :
         /\ array_size = even_size(size_var)
         /\ mid_point = even_size(size_var) \div 2
         /\ original_array = numbers
         /\ working_array = numbers
         /\ sorted_array = zeros(even_size(size_var))
  /\ is_sorting = FALSE
  /\ sort_thread1_done = FALSE
  /\ sort_thread2_done = FALSE
  /\ sorting_complete = FALSE
  /\ threads = <<>>
  /\ after_queue = <<>>
  /\ info_label = "Generated"

SortNext ==
  \/ generate_array
  \/ start_sorting
  \/ run_sorting
  \/ sorting_thread_visual
  \/ merging_thread_visual
  \/ sorting_complete_callback

SortSpec == SortInit /\ [][SortNext]_sort_vars

\* ------------------------------------------------------------------------
\* Properties of the sorting program
\* ------------------------------------------------------------------------
\* the positions of merging_thread_visual behind its two waits: the merge
\* loops, which read working_array, and what follows them
Merging == {"compare_left", "compare_right", "take_left", "take_right", "rest_left",
            "rest_right", "store_left", "store_right", "set_complete", "finished"}

\* a sorting thread has returned from visual_quick_sort and set its event
SortedItsHalf(t) == Running(t) /\ threads[t].pc = "finished"

\* the elements of an array as a bag
BagOf(array) ==
  [v \in {array[k] : k \in DOMAIN array} |->
     Cardinality({k \in DOMAIN array : array[k] = v})]

\* ------------------------------------------------------------------------
\* C15: in a run started by start_sorting (none is interrupted by reset
\* here) the merging thread is in its merge loops, reading working_array,
\* only when both sorting threads have finished sorting their halves and
\* set their events, whatever the interleaving of the three threads; the
\* halves it reads are then sorted.
\* ------------------------------------------------------------------------
C15_MergeAfterSorts ==
  (Running("merge_thread") /\ threads["merge_thread"].pc \in Merging) =>
    /\ \A t \in SortingThreads : SortedItsHalf(t)
    /\ sort_thread1_done /\ sort_thread2_done
    /\ is_sorted(SubSeq(working_array, 1, mid_point))
    /\ is_sorted(SubSeq(working_array, mid_point + 1, array_size))

\* the merging thread has read working_array for its first comparison after
\* both sorting threads moved elements of halves of three
C15_Witness ==
  /\ Running("merge_thread")
  /\ threads["merge_thread"].pc = "compare_right"
  /\ \A t \in SortingThreads : SortedItsHalf(t)
  /\ mid_point = 3
  /\ SubSeq(working_array, 1, mid_point) # SubSeq(original_array, 1, mid_point)
  /\ SubSeq(working_array, mid_point + 1, array_size) #
       SubSeq(original_array, mid_point + 1, array_size)

\* ------------------------------------------------------------------------
\* C16: in a run started by start_sorting (none is interrupted by reset
\* here), when sorting_complete_callback runs sorted_array is in
\* non-decreasing order and is a permutation of original_array, for every
\* generated array and every interleaving of the threads: the callback never
\* reports "NOT".
\* ------------------------------------------------------------------------
C16_SortedPermutation ==
  /\ after_queue # <<>> =>
       /\ is_sorted(sorted_array)
       /\ Len(sorted_array) = Len(original_array)
       /\ BagOf(sorted_array) = BagOf(original_array)
  /\ info_label # "NOT"
  /\ info_label = "CORRECTLY" =>
       /\ is_sorted(sorted_array)
       /\ BagOf(sorted_array) = BagOf(original_array)

\* the callback has reported on an array of six whose halves were both out
\* of order and whose merge took elements from the right half first
C16_Witness ==
  /\ info_label = "CORRECTLY"
  /\ array_size = 6
  /\ ~is_sorted(SubSeq(original_array, 1, mid_point))
  /\ ~is_sorted(SubSeq(original_array, mid_point + 1, array_size))
  /\ original_array[1] > original_array[array_size]
  /\ sorted_array # original_array

\* ========================================================================
\* src/TileShatter.py: the tile game and its dynamic programme
\* ========================================================================
\* the number of tiles and the tile values entered, capped for the check
MaxTiles == 3
MaxTileValue == 2
\* how many calls of shatter may be inside root.update() at once, and how
\* many draw_tiles timers may be pending when a tile is clicked
MaxNesting == 2
MaxTimers == 2

\* [[v] * n for _ in range(n)] and its cells, rows and columns 0-based
table(n, v) == [r \in 1..n |-> [c \in 1..n |-> v]]
cell(t, r, c) == t[r + 1][c + 1]
set_cell(t, r, c, v) == [t EXCEPT ![r + 1][c + 1] = v]

\* for k in range(left + 1, right): tables is <<dp, order>>
RECURSIVE dp_k(_, _, _, _, _)
dp_k(tables, ns, left, right, k) ==
  IF k >= right THEN tables
  ELSE LET val == cell(tables[1], left, k) + at(ns, left) * at(ns, k) * at(ns, right)
                    + cell(tables[1], k, right)
       IN dp_k(IF val > cell(tables[1], left, right)
               THEN <<set_cell(tables[1], left, right, val),
                      set_cell(tables[2], left, right, k)>>
               ELSE tables,
               ns, left, right, k + 1)

\* for left in range(n - length)
RECURSIVE dp_left(_, _, _, _)
dp_left(tables, ns, length, left) ==
  IF left >= Len(ns) - length THEN tables
  ELSE dp_left(dp_k(tables, ns, left, left + length, left + 1), ns, length, left + 1)

\* for length in range(2, n)
RECURSIVE dp_length(_, _, _)
dp_length(tables, ns, length) ==
  IF length >= Len(ns) THEN tables
  ELSE dp_length(dp_left(tables, ns, length, 0), ns, length + 1)

\* returns <<nums, dp, order>>
calculate_dp(multipliers) ==
  LET ns == <<1>> \o multipliers \o <<1>>
      tables == dp_length(<<table(Len(ns), 0), table(Len(ns), -1)>>, ns, 2)
  IN <<ns, tables[1], tables[2]>>

\* list(range(1, len(nums) - 1))
all_tiles(ns) == [k \in 1..(Len(ns) - 2) |-> k]

Range(s) == {s[k] : k \in DOMAIN s}

\* list.index(idx), 0-based
index_of(s, idx) == (CHOOSE k \in DOMAIN s : s[k] = idx /\ \A m \in 1..(k - 1) : s[m] # idx) - 1

\* the list after list.pop(pos), 0-based
popped_at(s, pos) == SubSeq(s, 1, pos) \o SubSeq(s, pos + 2, Len(s))

\* left_val * nums[idx] * right_val for the tile at curr_pos of active
points_of(ns, active, curr_pos) ==
  LET left_val == IF curr_pos > 0 THEN at(ns, at(active, curr_pos - 1)) ELSE 1
      right_val == IF curr_pos < Len(active) - 1 THEN at(ns, at(active, curr_pos + 1)) ELSE 1
  IN left_val * at(ns, at(active, curr_pos)) * right_val

\* get_optimal_order(left, right) on the order table
RECURSIVE get_optimal_order(_, _, _)
get_optimal_order(order_table, left, right) ==
  IF right - left <= 1 THEN <<>>
  ELSE LET k == cell(order_table, left, right)
       IN IF k = -1 THEN <<>>
          ELSE get_optimal_order(order_table, left, k)
                 \o get_optimal_order(order_table, k, right) \o <<k>>

\* what _check_game_complete writes to status_label and, when the score is
\* not the optimal one, the optimal order it shows in preview_label
check_game_complete(score, optimal, ns, order_table) ==
  IF score = optimal THEN <<"PERFECT">>
  ELSE <<"missed", optimal - score, get_optimal_order(order_table, 0, Len(ns) - 1)>>

\* the entries start_game accepts: at least one non-negative integer
Entries == UNION {[1..n -> 0..MaxTileValue] : n \in 1..MaxTiles}

\* calculate_dp of every entry, computed once
Calculated == {<<multipliers, calculate_dp(multipliers)>> : multipliers \in Entries}

calculated(multipliers) == (CHOOSE c \in Calculated : c[1] = multipliers)[2]

\* The handlers below run on the GUI thread. shatter calls root.update()
\* (in _animate_shatter) before it removes the tile: every event that is
\* pending then, a click or a timer, is dispatched inside that call, so any
\* handler may run between the two halves of shatter.
start_game ==
  /\ \E multipliers \in Entries :
       LET result == calculated(multipliers)
       IN /\ nums' = result[1]
          /\ dp' = result[2]
          /\ order' = result[3]
          /\ active_indices' = all_tiles(result[1])
          /\ optimal_score' = cell(result[2], 0, Len(result[1]) - 1)
          /\ canvas_tiles' = Range(all_tiles(result[1]))
  /\ current_score' = 0
  /\ status_label' = <<>>
  /\ UNCHANGED <<update_stack, draw_timers, beside_tiles>>

reset_game ==
  /\ nums # <<>>
  /\ active_indices' = all_tiles(nums)
  /\ current_score' = 0
  /\ status_label' = <<>>
  /\ canvas_tiles' = Range(all_tiles(nums))
  /\ UNCHANGED <<nums, dp, order, optimal_score, update_stack, draw_timers, beside_tiles>>

\* shatter up to root.update(): a click on a tile that is on the canvas
shatter ==
  /\ Len(update_stack) < MaxNesting
  /\ draw_timers < MaxTimers
  /\ \E idx \in canvas_tiles :
       /\ idx \in Range(active_indices)
       /\ LET curr_pos == index_of(active_indices, idx)
          IN /\ current_score' = current_score + points_of(nums, active_indices, curr_pos)
             /\ update_stack' = Append(update_stack, <<idx, curr_pos>>)
  /\ UNCHANGED <<nums, dp, order, optimal_score, active_indices, canvas_tiles,
                 draw_timers, status_label, beside_tiles>>

\* shatter after root.update(): self.active_indices.pop(curr_pos), which
\* raises IndexError when the list has become too short, then
\* root.after(150, self.draw_tiles)
shatter_continue ==
  /\ update_stack # <<>>
  /\ LET curr_pos == update_stack[Len(update_stack)][2]
     IN IF curr_pos < Len(active_indices)
        THEN /\ active_indices' = popped_at(active_indices, curr_pos)
             /\ draw_timers' = draw_timers + 1
        ELSE UNCHANGED <<active_indices, draw_timers>>
  /\ update_stack' = SubSeq(update_stack, 1, Len(update_stack) - 1)
  /\ UNCHANGED <<nums, dp, order, current_score, optimal_score, canvas_tiles,
                 status_label, beside_tiles>>

\* a timer of root.after(150, self.draw_tiles) fires
draw_tiles ==
  /\ draw_timers > 0
  /\ draw_timers' = draw_timers - 1
  /\ canvas_tiles' = Range(active_indices)
  /\ status_label' = IF active_indices = <<>>
                     THEN check_game_complete(current_score, optimal_score, nums, order)
                     ELSE status_label
  /\ UNCHANGED <<nums, dp, order, current_score, optimal_score, active_indices,
                 update_stack, beside_tiles>>

TileInit == SearchAbsent /\ SortingAbsent /\ TreeAbsent /\ TilesAbsent

TileNext ==
  \/ start_game
  \/ reset_game
  \/ shatter
  \/ shatter_continue
  \/ draw_tiles

TileSpec == TileInit /\ [][TileNext]_tile_vars

\* ------------------------------------------------------------------------
\* Properties of the tile game
\* ------------------------------------------------------------------------
max_of(S) == CHOOSE x \in S : \A y \in S : y <= x

\* the best total over all orders of shattering the tiles of a row, by trying
\* every tile as the next one to shatter
RECURSIVE best_total(_)
best_total(tiles) ==
  IF tiles = <<>> THEN 0
  ELSE max_of({(IF k > 1 THEN tiles[k - 1] ELSE 1) * tiles[k] *
                 (IF k < Len(tiles) THEN tiles[k + 1] ELSE 1) +
               best_total(SubSeq(tiles, 1, k - 1) \o SubSeq(tiles, k + 1, Len(tiles))) :
               k \in 1..Len(tiles)})

\* the multipliers entered for the game, recovered from nums
multipliers_of(ns) == SubSeq(ns, 2, Len(ns) - 1)

\* optimal_score is the best total over all orders
DpIsBest ==
  nums # <<>> => optimal_score = best_total(multipliers_of(nums))

\* ------------------------------------------------------------------------
\* C17: for every list of non-negative tile values optimal_score, dp[0][n-1]
\* of calculate_dp, is the maximum total over all orders of shattering all
\* tiles, so the score accumulated through shatter when no tile is left
\* never exceeds optimal_score.
\* ------------------------------------------------------------------------
C17_ScoreWithinOptimal ==
  /\ DpIsBest
  /\ (nums # <<>> /\ active_indices = <<>> /\ update_stack = <<>>) =>
       current_score <= optimal_score

\* ========================================================================
\* src/server_Node_one_to_one.py: service centers on a binary tree
\* ========================================================================
\* the depth of the trees generate_random_tree builds, capped for the check
MaxDepth == 3

\* the paths of fewer than d steps
RECURSIVE PathsBelow(_)
PathsBelow(d) ==
  IF d = 0 THEN {}
  ELSE {<<>>} \cup {<<x>> \o p : x \in {"L", "R"}, p \in PathsBelow(d - 1)}

parent_of(n) == SubSeq(n, 1, Len(n) - 1)

\* every tree build_random can return for a depth of at most MaxDepth, the
\* single node included that replaces an empty result
Trees ==
  {t \in SUBSET PathsBelow(MaxDepth) :
     /\ <<>> \in t
     /\ \A n \in t : n # <<>> => parent_of(n) \in t}

\* _create_linear_tree: A.left = B, B.left = C, C.left = D, D.right = E
linear_tree ==
  {<<>>, <<"L">>, <<"L", "L">>, <<"L", "L", "L">>, <<"L", "L", "L", "R">>}

\* the nodes of the subtree at node in the order the recursion finishes them
RECURSIVE post_order(_, _)
post_order(tree, node) ==
  IF node \notin tree THEN <<>>
  ELSE post_order(tree, Append(node, "L")) \o post_order(tree, Append(node, "R"))
         \o <<node>>

min2(a, b) == IF a <= b THEN a ELSE b

\* what the recursive call on a child returned: (0, 0) for no child
returned(tree, ret, child) == IF child \in tree THEN ret[child] ELSE <<0, 0>>

\* the DP transition of one node: <<dont_place, place_here>>
dp_transition(left, right) ==
  <<left[2] + right[2], 1 + min2(left[1], left[2]) + min2(right[1], right[2])>>

\* the fields of freshly built or reset nodes
fresh_dp(tree) == [n \in tree |-> <<0, 0>>]

\* ------------------------------------------------------------------------
\* The handlers of the GUI thread
\* ------------------------------------------------------------------------
\* a new tree replaces the one shown; a running task keeps the nodes it was
\* called with, which are no longer the ones shown
generate_random_tree ==
  /\ \E t \in Trees : root_node' = t /\ node_dp' = fresh_dp(t)
  /\ node_center' = {}
  /\ task' = IF task = <<>> THEN task ELSE [task EXCEPT !.same_tree = FALSE]
  /\ UNCHANGED <<is_running, stop_requested, tree_after, result_label, beside_tree>>

run_animation ==
  /\ ~is_running
  /\ is_running' = TRUE
  /\ stop_requested' = FALSE
  /\ task' = [pc |-> "reset_tree", tree |-> {}, same_tree |-> FALSE,
              todo |-> <<>>, ret |-> <<>>]
  /\ UNCHANGED <<root_node, node_center, node_dp, tree_after, result_label, beside_tree>>

stop_animation ==
  /\ is_running
  /\ ~stop_requested
  /\ stop_requested' = TRUE
  /\ UNCHANGED <<root_node, node_center, node_dp, is_running, task, tree_after,
                 result_label, beside_tree>>

on_complete ==
  /\ tree_after # <<>>
  /\ Head(tree_after)[1] = "_on_complete"
  /\ result_label' = <<Head(tree_after)[2]>>
  /\ tree_after' = Tail(tree_after)
  /\ UNCHANGED <<root_node, node_center, node_dp, is_running, stop_requested, task,
                 beside_tree>>

reset_buttons ==
  /\ tree_after # <<>>
  /\ Head(tree_after)[1] = "_reset_buttons"
  /\ is_running' = FALSE
  /\ tree_after' = Tail(tree_after)
  /\ UNCHANGED <<root_node, node_center, node_dp, stop_requested, task, result_label,
                 beside_tree>>

\* ------------------------------------------------------------------------
\* task, the thread run_animation starts
\* ------------------------------------------------------------------------
\* self.reset_tree() on the tree shown
task_reset_tree ==
  /\ task # <<>> /\ task.pc = "reset_tree"
  /\ node_center' = {}
  /\ node_dp' = fresh_dp(root_node)
  /\ task' = [task EXCEPT !.pc = "call"]
  /\ UNCHANGED <<root_node, is_running, stop_requested, tree_after, result_label,
                 beside_tree>>

\* min_service_centers_dp(self.root_node, ...) is called: the recursion keeps
\* the nodes of the tree shown at this moment
task_call ==
  /\ task # <<>> /\ task.pc = "call"
  /\ task' = [pc |-> "node", tree |-> root_node, same_tree |-> TRUE,
              todo |-> post_order(root_node, <<>>), ret |-> <<>>]
  /\ UNCHANGED <<root_node, node_center, node_dp, is_running, stop_requested,
                 tree_after, result_label, beside_tree>>

\* min_service_centers_dp finishes one node: both children have returned, the
\* DP values are stored in the node and the node is made a center or not
min_service_centers_dp ==
  /\ task # <<>> /\ task.pc = "node"
  /\ LET node == Head(task.todo)
         values == dp_transition(returned(task.tree, task.ret, Append(node, "L")),
                                 returned(task.tree, task.ret, Append(node, "R")))
         dont_place == values[1]
         place_here == values[2]
     IN /\ task' = [task EXCEPT !.ret = (node :> values) @@ task.ret,
                                !.todo = Tail(task.todo),
                                !.pc = IF Tail(task.todo) = <<>> THEN "return" ELSE "node"]
        /\ IF task.same_tree
           THEN /\ node_dp' = [node_dp EXCEPT ![node] = values]
                /\ node_center' = IF place_here <= dont_place
                                  THEN node_center \cup {node}
                                  ELSE node_center \ {node}
           ELSE UNCHANGED <<node_dp, node_center>>
  /\ UNCHANGED <<root_node, is_running, stop_requested, tree_after, result_label,
                 beside_tree>>

\* result = min(dont_place, place_here), handed to _on_complete unless stop
\* was requested; _reset_buttons is scheduled in any case
task_return ==
  /\ task # <<>> /\ task.pc = "return"
  /\ LET result == min2(task.ret[<<>>][1], task.ret[<<>>][2])
     IN tree_after' = tree_after \o
                      (IF stop_requested THEN <<>> ELSE << <<"_on_complete", result>> >>) \o
                      << <<"_reset_buttons", 0>> >>
  /\ task' = <<>>
  /\ UNCHANGED <<root_node, node_center, node_dp, is_running, stop_requested,
                 result_label, beside_tree>>

\* TreeGUI as constructed: the linear preset is shown
TreeInit ==
  /\ SearchAbsent /\ SortingAbsent /\ TilesAbsent
  /\ root_node = linear_tree
  /\ node_center = {}
  /\ node_dp = fresh_dp(linear_tree)
  /\ is_running = FALSE
  /\ stop_requested = FALSE
  /\ task = <<>>
  /\ tree_after = <<>>
  /\ result_label = <<>>

TreeNext ==
  \/ generate_random_tree
  \/ run_animation
  \/ stop_animation
  \/ task_reset_tree
  \/ task_call
  \/ min_service_centers_dp
  \/ task_return
  \/ on_complete
  \/ reset_buttons

TreeSpec == TreeInit /\ [][TreeNext]_tree_vars

\* ------------------------------------------------------------------------
\* Properties of the service centers
\* ------------------------------------------------------------------------
\* every node of the tree is a center or has a center as parent or child
Covers(tree, centers) ==
  \A n \in tree :
    \/ n \in centers
    \/ n # <<>> /\ parent_of(n) \in centers
    \/ \E x \in {"L", "R"} : Append(n, x) \in centers

\* the fewest centers that cover the tree
MinCenters(tree) ==
  LET sizes == {Cardinality(centers) : centers \in {c \in SUBSET tree : Covers(tree, c)}}
  IN CHOOSE k \in sizes : \A m \in sizes : k <= m

\* ------------------------------------------------------------------------
\* C18: for every binary tree the result of the DP run,
\* min(dont_place, place_here) at the root, is the minimum number of service
\* centers with which every node is a center or adjacent (parent or child)
\* to a center; that number is what _on_complete is given to report.
\* ------------------------------------------------------------------------
C18_MinimumCenters ==
  (task # <<>> /\ task.pc = "return") =>
    min2(task.ret[<<>>][1], task.ret[<<>>][2]) = MinCenters(task.tree)

\* ------------------------------------------------------------------------
\* Properties of the trace and the frontier of a search
\* ------------------------------------------------------------------------
PopTags == {"Pop from Stack", "Dequeue", "Pop min f(n)"}

IsPop(r) == r.action \in PopTags

\* steps are kept doubled: a whole step k is 2k, the step k + 0.5 is 2k + 1
WholeStep(r) == r.step % 2 = 0

\* ------------------------------------------------------------------------
\* C19: the trace of every search starts with one 'Initialize' record with
\* step 0 and no current node; then, for k = 1..steps, comes exactly one pop
\* record with the whole step k, which may be followed at once by exactly
\* one record with step k + 0.5 that is 'Expand' or the goal record; an
\* 'Expand' record never follows the pop of a node that was already closed
\* or of the goal.  The steps counted so far (and the returned step count)
\* are the whole step of the last record.
\* ------------------------------------------------------------------------
C19_TraceShape ==
  trace # <<>> =>
    /\ trace[1].action = "Initialize"
    /\ trace[1].step = 0
    /\ trace[1].current = "None"
    /\ \A i \in 2..Len(trace) :
         \/ /\ IsPop(trace[i])
            /\ WholeStep(trace[i])
            /\ trace[i].step = 2 * ((trace[i - 1].step \div 2) + 1)
         \/ /\ ~WholeStep(trace[i])
            /\ trace[i].action = "Expand" \/ IsGoalRecord(trace[i])
            /\ IsPop(trace[i - 1])
            /\ trace[i - 1].step = trace[i].step - 1
            /\ trace[i - 1].current = trace[i].current
            /\ trace[i].action = "Expand" =>
                 /\ trace[i - 1].current \notin trace[i - 1].closed
                 /\ trace[i - 1].current # goal
    /\ trace[Len(trace)].step \div 2 = step
    /\ pc = "returned" => LastResult.trace = trace /\ LastResult.steps = step

\* a search returned a path and its trace holds all three cases: a pop with
\* an 'Expand' record, a pop of an already-closed node with no record after
\* it, and the pop of the goal with the goal record
C19_Witness ==
  /\ ValidInput /\ pc = "returned"
  /\ LastResult.path # None
  /\ IsGoalRecord(trace[Len(trace)])
  /\ \E i \in 2..(Len(trace) - 1) :
       /\ IsPop(trace[i]) /\ trace[i].current \in trace[i].closed
       /\ IsPop(trace[i + 1])
  /\ \E i \in 2..Len(trace) : trace[i].action = "Expand"

\* the node, path and cost of a frontier entry: (node, path, cost) for DFS
\* and BFS, (f, g, node, path) for A*
EntryNode(a, e) == IF a = "astar" THEN e[3] ELSE e[1]

EntryPath(a, e) == IF a = "astar" THEN e[4] ELSE e[2]

EntryCost(a, e) == IF a = "astar" THEN e[2] ELSE e[3]

\* how many entries of the frontier are for node n
EntriesFor(a, open, n) == Cardinality({i \in 1..Len(open) : EntryNode(a, open[i]) = n})

\* the neighbours of node n that are not in closed
OpenNeighbours(n, closed) ==
  {graph[n][i][1] : i \in 1..Len(graph[n])} \ closed

\* the entries the 'Expand' records of tr show as added
AddedIn(tr) ==
  LET expands == {i \in 2..Len(tr) : tr[i].action = "Expand"}
  IN SumOver(expands, [i \in expands |-> Len(tr[i].open) - Len(tr[i - 1].open)])

\* ------------------------------------------------------------------------
\* C20: the frontier of a search starts with exactly one entry, the start
\* node with path [start] and cost 0; every step of the loop removes exactly
\* one entry; entries are added only in a step that expands a node that is
\* not the goal and not yet closed, one entry for each neighbour that is not
\* in the closed set; so the steps counted, and the step count returned, are
\* the number of pops: one plus the entries added minus the entries left.
\* ------------------------------------------------------------------------
C20_FrontierAccounting ==
  /\ [][(pc # "loop" /\ pc' = "loop") =>
          /\ Len(open_list') = 1
          /\ EntryNode(algo', open_list'[1]) = start
          /\ EntryPath(algo', open_list'[1]) = <<start>>
          /\ EntryCost(algo', open_list'[1]) = 0]_vars
  /\ [][(pc = "loop" /\ step' = step + 1) =>
          LET current_node == trace'[Len(trace) + 1].current
              expanded == /\ current_node # goal
                          /\ current_node \notin closed_set
                          /\ current_node \in DOMAIN graph
              added == IF expanded THEN OpenNeighbours(current_node, closed_set') ELSE {}
          IN /\ EntriesFor(algo, open_list, current_node) >= 1
             /\ Len(open_list') = Len(open_list) - 1 + Cardinality(added)
             /\ \A n \in DOMAIN graph \cup {start, goal} :
                  EntriesFor(algo, open_list', n) =
                    EntriesFor(algo, open_list, n)
                      - (IF n = current_node THEN 1 ELSE 0)
                      + (IF n \in added THEN 1 ELSE 0)]_vars
  /\ [](pc \in {"loop", "returned"} =>
          /\ step = Cardinality({i \in 1..Len(trace) : IsPop(trace[i])})
          /\ step = 1 + AddedIn(trace) - Len(open_list)
          /\ pc = "returned" => LastResult.steps = step)

\* a search returned after a loop that popped a closed node (nothing added)
\* and expanded a node with several neighbours added at once
C20_Witness ==
  /\ ValidInput /\ pc = "returned"
  /\ LastResult.steps = step
  /\ step >= 4
  /\ \E i \in 2..(Len(trace) - 1) :
       /\ IsPop(trace[i]) /\ trace[i].current \in trace[i].closed
       /\ Len(trace[i + 1].open) = Len(trace[i].open) - 1
  /\ \E i \in 2..Len(trace) :
       /\ trace[i].action = "Expand"
       /\ Len(trace[i].open) >= Len(trace[i - 1].open) + 2
  /\ step = 1 + AddedIn(trace) - Len(open_list)

\* the entry (f, g, node, path) a pop record of A* shows as popped
PoppedEntry(r) == <<r.f, r.cost, r.current, r.path>>

\* a is not after b in the lexicographic order (f, g, node identifier, path)
LexNotAfter(a, b) ==
  \/ a[1] < b[1]
  \/ a[1] = b[1] /\ a[2] < b[2]
  \/ a[1] = b[1] /\ a[2] = b[2] /\ a[3] # b[3] /\ StrLess(a[3], b[3])
  \/ a[1] = b[1] /\ a[2] = b[2] /\ a[3] = b[3] /\ (a[4] = b[4] \/ ListLess(a[4], b[4]))

EntrySet(open) == {open[i] : i \in 1..Len(open)}

\* ------------------------------------------------------------------------
\* C22: A* does not de-duplicate on push: when it expands a node, every
\* neighbour outside the closed set gets one more frontier entry, also when
\* the frontier already holds an entry for that neighbour; and when it pops
\* an entry for a node that is already closed and is not the goal, the entry
\* is dropped: the closed set and nodes_expanded stay as they are and
\* nothing is pushed.
\* ------------------------------------------------------------------------
C22_NoDedup ==
  [][(pc = "loop" /\ algo = "astar" /\ step' = step + 1) =>
       LET rec == trace'[Len(trace) + 1]
           current_node == rec.current
       IN /\ (current_node # goal /\ current_node \notin closed_set
               /\ current_node \in DOMAIN graph) =>
               \A n \in OpenNeighbours(current_node, closed_set') :
                 /\ EntriesFor("astar", open_list', n) =
                      EntriesFor("astar", open_list, n) + 1
                 /\ \E e \in EntrySet(open_list') \ EntrySet(open_list) :
                      /\ e[3] = n
                      /\ e[4] = Append(rec.path, n)
          /\ (current_node # goal /\ current_node \in closed_set) =>
               /\ closed_set' = closed_set
               /\ nodes_expanded' = nodes_expanded
               /\ Len(open_list') = Len(open_list) - 1
               /\ EntrySet(open_list') \subseteq EntrySet(open_list)
               /\ pc' = "loop"]_vars

\* A* pushed an entry for a node the frontier already held an entry for, and
\* has now popped and dropped an entry for a node that was already closed
C22_Witness ==
  /\ ValidInput /\ pc = "loop" /\ algo = "astar"
  /\ IsPop(trace[Len(trace)])
  /\ trace[Len(trace)].current \in trace[Len(trace)].closed
  /\ trace[Len(trace)].current # goal
  /\ nodes_expanded = Cardinality(trace[Len(trace)].closed)
  /\ \E i \in 2..Len(trace) :
       /\ trace[i].action = "Expand"
       /\ \E n \in DOMAIN graph :
            /\ Cardinality({k \in 1..Len(trace[i - 1].open) : trace[i - 1].open[k][2] = n}) >= 1
            /\ Cardinality({k \in 1..Len(trace[i].open) : trace[i].open[k][2] = n}) >=
                 1 + Cardinality({k \in 1..Len(trace[i - 1].open) : trace[i - 1].open[k][2] = n})

\* A* returned a cost above the true shortest-path cost, on positive weights
\* and with an admissible heuristic
AstarSuboptimal ==
  /\ pc = "returned" /\ algo = "astar" /\ ValidInput
  /\ LastResult.cost # None
  /\ Admissible(heuristic, ShortestTo(goal))
  /\ LastResult.cost[1] > ShortestTo(goal)[start][1]

\* some node other than the goal was closed on a path that costs more than
\* its true shortest-path cost from start (roads run both ways, so the cost
\* from start is the cost to start)
ClosedTooCostly(tr) ==
  LET from_start == ShortestTo(start)
  IN \E i \in 2..Len(tr) :
       /\ IsPop(tr[i])
       /\ tr[i].current # goal
       /\ tr[i].current \notin tr[i].closed
       /\ tr[i].cost > from_start[tr[i].current][1]

FirstUnclosed(n, closed) ==
  LET k == CHOOSE k \in 1..Len(graph[n]) :
             /\ graph[n][k][1] \notin closed
             /\ \A j \in 1..(k - 1) : graph[n][j][1] \in closed
  IN graph[n][k][1]

\* ------------------------------------------------------------------------
\* C24: DFS pops the entry pushed most recently, the last one of the stack,
\* and leaves the entries below it as they are; neighbours are pushed in
\* reverse declared order, so the pop that follows an expansion takes the
\* first neighbour in declared order that was not closed, with the expanded
\* node's path extended by it.
\* ------------------------------------------------------------------------
C24_DfsLifo ==
  [][(pc = "loop" /\ algo = "dfs" /\ step' = step + 1) =>
       LET rec == trace'[Len(trace) + 1]
           top == open_list[Len(open_list)]
           last == trace[Len(trace)]
       IN /\ rec.current = top[1] /\ rec.path = top[2] /\ rec.cost = top[3]
          /\ SubSeq(open_list', 1, Len(open_list) - 1) =
               SubSeq(open_list, 1, Len(open_list) - 1)
          /\ last.action = "Expand" =>
               /\ rec.current = FirstUnclosed(last.current, last.closed)
               /\ rec.path = Append(last.path, rec.current)]_vars

\* DFS expanded a node whose first declared neighbour was closed, pushed at
\* least two entries, and popped the first declared unclosed neighbour next
C24_Witness ==
  /\ ValidInput /\ algo = "dfs"
  /\ \E i \in 2..(Len(trace) - 1) :
       /\ trace[i].action = "Expand"
       /\ Len(trace[i].open) >= Len(trace[i - 1].open) + 2
       /\ graph[trace[i].current][1][1] \in trace[i].closed
       /\ IsPop(trace[i + 1])
       /\ trace[i + 1].current = FirstUnclosed(trace[i].current, trace[i].closed)
       /\ trace[i + 1].current # graph[trace[i].current][Len(graph[trace[i].current])][1]

\* what a record shows of a frontier: its nodes in order, for A* with their f
SnapshotOf(a, open) ==
  [k \in 1..Len(open) |-> IF a = "astar" THEN <<open[k][1], open[k][3]>> ELSE open[k][1]]

\* the frontier once the entry to pop is taken out
AfterPop(a, open) ==
  CASE a = "dfs" -> SubSeq(open, 1, Len(open) - 1)
    [] a = "bfs" -> Tail(open)
    [] a = "astar" -> heappop(open)[2]

\* ------------------------------------------------------------------------
\* C25: a trace record's open and closed snapshots are the frontier's node
\* sequence and the closed set at the instant the record is appended (the
\* 'Initialize' record: the start entry and no closed node; a pop record:
\* the frontier without the popped entry and the closed set before the node
\* is closed; an 'Expand' or goal record: the frontier and closed set after
\* the step), and no step of the search changes or removes a record that is
\* already in the trace: the trace only grows at its end.
\* ------------------------------------------------------------------------
C25_SnapshotsKept ==
  /\ [][(pc # "loop" /\ pc' = "loop") =>
          /\ Len(trace') = 1
          /\ trace'[1].open = SnapshotOf(algo', open_list')
          /\ trace'[1].closed = {}
          /\ closed_set' = {}]_vars
  /\ [][pc = "loop" =>
          /\ Len(trace') >= Len(trace)
          /\ SubSeq(trace', 1, Len(trace)) = trace
          /\ step' = step => trace' = trace]_vars
  /\ [][(pc = "loop" /\ step' = step + 1) =>
          /\ Len(trace') \in {Len(trace) + 1, Len(trace) + 2}
          /\ trace'[Len(trace) + 1].open = SnapshotOf(algo, AfterPop(algo, open_list))
          /\ trace'[Len(trace) + 1].closed = closed_set
          /\ Len(trace') = Len(trace) + 2 =>
               /\ trace'[Len(trace) + 2].open = SnapshotOf(algo, open_list')
               /\ trace'[Len(trace) + 2].closed = closed_set']_vars

\* a search returned a path; its trace still holds a pop record and an
\* 'Expand' record whose snapshots differ from the frontier and the closed
\* set as they are now
C25_Witness ==
  /\ ValidInput /\ pc = "returned" /\ LastResult.path # None
  /\ IsGoalRecord(trace[Len(trace)])
  /\ \E i \in 2..Len(trace) :
       /\ IsPop(trace[i])
       /\ trace[i].closed # closed_set
       /\ trace[i].open # SnapshotOf(algo, open_list)
  /\ \E i \in 2..Len(trace) :
       /\ trace[i].action = "Expand"
       /\ trace[i].closed # closed_set
       /\ trace[i].open # SnapshotOf(algo, open_list)

\* the total of shattering the tiles of hint one after the other, starting
\* from the row active; a tile that is not in the row scores nothing
RECURSIVE total_of(_, _, _)
total_of(ns, active, hint) ==
  IF hint = <<>> THEN 0
  ELSE IF Head(hint) \notin Range(active) THEN total_of(ns, active, Tail(hint))
  ELSE LET curr_pos == index_of(active, Head(hint))
       IN points_of(ns, active, curr_pos)
            + total_of(ns, popped_at(active, curr_pos), Tail(hint))

\* ------------------------------------------------------------------------
\* C26: for every list of non-negative tile values the order that
\* get_optimal_order(0, n-1) returns, which _check_game_complete shows as
\* the hint, contains every tile index exactly once, and shattering the
\* tiles in that order gives a total equal to optimal_score.
\* ------------------------------------------------------------------------
C26_OptimalOrderComplete ==
  (status_label # <<>> /\ status_label[1] = "missed") =>
    LET hint == status_label[3]
    IN /\ Len(hint) = Len(nums) - 2
       /\ Range(hint) = Range(all_tiles(nums))
       /\ total_of(nums, all_tiles(nums), hint) = optimal_score

\* p is a simple path of the graph from start to node n and c is the sum of
\* the weights of its edges
SimplePath(p, n, c) ==
  /\ p # <<>>
  /\ p[1] = start
  /\ p[Len(p)] = n
  /\ \A k \in 1..(Len(p) - 1) : Weight(p[k], p[k + 1]) # None
  /\ \A j, k \in 1..Len(p) : j # k => p[j] # p[k]
  /\ c = SumOver(1..(Len(p) - 1), [k \in 1..(Len(p) - 1) |-> Weight(p[k], p[k + 1])[1]])

\* ------------------------------------------------------------------------
\* C27: in DFS, BFS and A* every frontier entry holds a simple path of the
\* graph: the path begins at start and ends at the entry's node, every two
\* consecutive nodes are joined by an edge, no node occurs twice, and the
\* entry's cost is the sum of the edge weights along the path; so does the
\* path a search returns, which ends at the goal with the returned cost.
\* ------------------------------------------------------------------------
C27_SimplePaths ==
  /\ pc = "loop" =>
       \A i \in 1..Len(open_list) :
         SimplePath(EntryPath(algo, open_list[i]), EntryNode(algo, open_list[i]),
                    EntryCost(algo, open_list[i]))
  /\ (pc = "returned" /\ LastResult.path # None) =>
       SimplePath(LastResult.path[1], goal, LastResult.cost[1])

\* a search returned a path of at least three edges after its frontier had
\* held several entries; the path is simple and its cost is the sum of its
\* edge weights
C27_Witness ==
  /\ ValidInput /\ pc = "returned" /\ LastResult.path # None
  /\ Len(LastResult.path[1]) >= 4
  /\ SimplePath(LastResult.path[1], goal, LastResult.cost[1])
  /\ LastResult.cost[1] > Len(LastResult.path[1]) - 1
  /\ Len(open_list) >= 2
  /\ \A i \in 1..Len(open_list) :
       SimplePath(EntryPath(algo, open_list[i]), EntryNode(algo, open_list[i]),
                  EntryCost(algo, open_list[i]))

\* the pop records of tr that close a node: the node is not the goal and
\* was not closed before
Closings(tr) ==
  {i \in 2..Len(tr) : IsPop(tr[i]) /\ tr[i].current # goal
                         /\ tr[i].current \notin tr[i].closed}

\* ------------------------------------------------------------------------
\* C28: when the heuristic is consistent, the f values of the entries A*
\* pops never decrease from one pop to the next over the whole search, and
\* every node is closed with g equal to its true shortest-path cost from
\* start (roads run both ways, so that is its shortest cost to start).
\* ------------------------------------------------------------------------
C28_MonotoneF ==
  (algo = "astar" /\ pc \in {"loop", "returned"} /\ Consistent(heuristic)) =>
    LET from_start == ShortestTo(start)
    IN /\ \A i \in 2..Len(trace) :
            IsPop(trace[i]) =>
              \A j \in {i - 1, i - 2} :
                (j >= 2 /\ IsPop(trace[j])) => trace[j].f <= trace[i].f
       /\ \A i \in Closings(trace) :
            /\ from_start[trace[i].current] # None
            /\ trace[i].cost = from_start[trace[i].current][1]

\* A* returned under a consistent heuristic that is not all zero; the f of
\* its pops rose on the way, and a node was closed with a g below the
\* weight of its direct road from start
C28_Witness ==
  /\ ValidInput /\ algo = "astar" /\ pc = "returned"
  /\ Consistent(heuristic)
  /\ \E n \in DOMAIN heuristic : heuristic[n] > 0
  /\ Cardinality(Closings(trace)) >= 3
  /\ \E i \in 2..(Len(trace) - 2) :
       /\ IsPop(trace[i]) /\ IsPop(trace[i + 2])
       /\ trace[i].f < trace[i + 2].f
  /\ \E i \in Closings(trace) :
       /\ Weight(start, trace[i].current) # None
       /\ trace[i].cost < Weight(start, trace[i].current)[1]
       /\ trace[i].cost = ShortestTo(start)[trace[i].current][1]

\* the nodes that can be reached from the nodes of S along adjacency entries
RECURSIVE ReachedFrom(_)
ReachedFrom(S) ==
  LET next == S \cup UNION {{graph[n][i][1] : i \in 1..Len(graph[n])} :
                            n \in S \cap DOMAIN graph}
  IN IF next = S THEN S ELSE ReachedFrom(next)

\* ------------------------------------------------------------------------
\* C29: when a search ends without reaching the goal (it returns no path),
\* the closed set is exactly the set of nodes that can be reached from
\* start, the goal not among them, so the nodes-expanded count it returns is
\* the number of nodes of start's connected component.
\* ------------------------------------------------------------------------
C29_ClosedIsComponent ==
  (pc = "returned" /\ LastResult.path = None) =>
    /\ closed_set = ReachedFrom({start})
    /\ goal \notin closed_set
    /\ LastResult.nodes_expanded = Cardinality(ReachedFrom({start}))

\* DFS ended without a path after closing a component of at least three
\* nodes that is not the whole graph
C29_Witness ==
  /\ ValidInput /\ algo = "dfs" /\ pc = "returned"
  /\ LastResult.path = None
  /\ Cardinality(closed_set) >= 3
  /\ closed_set # DOMAIN graph
  /\ closed_set = ReachedFrom({start})
  /\ LastResult.nodes_expanded = Cardinality(closed_set)

\* ------------------------------------------------------------------------
\* The sorting program with its Reset button
\* ------------------------------------------------------------------------
\* reset: the flag is cleared, the three events are set and the arrays are
\* replaced; the threads of a run in progress are not stopped
reset ==
  /\ is_sorting' = FALSE
  /\ sort_thread1_done' = TRUE
  /\ sort_thread2_done' = TRUE
  /\ sorting_complete' = TRUE
  /\ working_array' = original_array
  /\ sorted_array' = zeros(array_size)
  /\ info_label' = "Reset"
  /\ UNCHANGED <<array_size, mid_point, original_array, threads, after_queue,
                 beside_sorting>>

\* the program constructed with the size spinbox at its lowest value
ResetInit == SortInit /\ array_size = even_size(4)

\* no thread of an earlier run is alive and no callback of one is pending
Quiet == threads = <<>> /\ after_queue = <<>>

\* the user presses Reset at any moment and leaves the size spinbox alone; a
\* new array or a new run is asked for only when the earlier run has ended,
\* so that the threads followed are those of one run at a time
ResetNext ==
  \/ reset
  \/ Quiet /\ generate_array /\ array_size' = array_size
  \/ Quiet /\ start_sorting
  \/ run_sorting
  \/ sorting_thread_visual
  \/ merging_thread_visual
  \/ sorting_complete_callback

ResetSpec == ResetInit /\ [][ResetNext]_sort_vars

\* ------------------------------------------------------------------------
\* C30: after reset() has returned, and until start_sorting (or another
\* handler that writes the arrays or the status line) runs, working_array
\* equals original_array and sorted_array is all zeros: no sorting or
\* merging thread of an earlier run writes to them, also when reset was
\* pressed while a sort was in progress.  info_label holds the text of
\* reset exactly as long as no such handler has run since.
\* ------------------------------------------------------------------------
C30_ResetHolds ==
  info_label = "Reset" =>
    /\ working_array = original_array
    /\ sorted_array = zeros(array_size)

====
